---- MODULE Spec2Model ----
(***************************************************************************)
(* A model of go-fuzzy: the fuzzy inference engine (package fuzzy) and the *)
(* rule language compiler (package dsl).                                   *)
(*                                                                         *)
(* float64 values are modelled as extended rationals <<n, d>>:             *)
(*   d > 0  the finite value n/d in lowest terms,                          *)
(*   <<1,0>> is +Inf, <<-1,0>> is -Inf, <<0,0>> is NaN.                     *)
(* Arithmetic on finite values is exact (rounding is not modelled), the    *)
(* IEEE-754 special values follow Go's rules; -0 is not distinguished.     *)
(***************************************************************************)
EXTENDS Integers, Sequences, FiniteSets, TLC

VARIABLES engine, out, in, parser

vars == <<engine, out, in, parser>>

(***************************************************************************)
(* float64                                                                 *)
(***************************************************************************)
Abs(n) == IF n < 0 THEN -n ELSE n

Sign(n) == IF n < 0 THEN -1 ELSE IF n > 0 THEN 1 ELSE 0

RECURSIVE GCD(_, _)
GCD(a, b) == IF b = 0 THEN a ELSE GCD(b, a % b)

\* the finite value n/d, d # 0, in lowest terms with a positive denominator
Norm(n, d) ==
    LET g == GCD(Abs(n), Abs(d))
        s == IF d < 0 THEN -1 ELSE 1
    IN  <<s * Sign(n) * (Abs(n) \div g), Abs(d) \div g>>

F(n) == <<n, 1>>

PosInf == <<1, 0>>
NegInf == <<-1, 0>>
NaN == <<0, 0>>

IsNaN(x) == x = NaN
IsInf(x) == x[2] = 0 /\ x[1] # 0
IsFinite(x) == x[2] > 0

FNeg(x) == <<-x[1], x[2]>>

FAdd(x, y) ==
    IF IsNaN(x) \/ IsNaN(y) THEN NaN
    ELSE IF IsInf(x) THEN (IF IsInf(y) /\ y # x THEN NaN ELSE x)
    ELSE IF IsInf(y) THEN y
    ELSE Norm(x[1] * y[2] + y[1] * x[2], x[2] * y[2])

FSub(x, y) == FAdd(x, FNeg(y))

FMul(x, y) ==
    IF IsNaN(x) \/ IsNaN(y) THEN NaN
    ELSE IF IsInf(x) \/ IsInf(y)
         THEN (IF x[1] = 0 \/ y[1] = 0 THEN NaN ELSE <<Sign(x[1]) * Sign(y[1]), 0>>)
    ELSE Norm(x[1] * y[1], x[2] * y[2])

FDiv(x, y) ==
    IF IsNaN(x) \/ IsNaN(y) THEN NaN
    ELSE IF IsInf(x)
         THEN (IF IsInf(y) THEN NaN
               ELSE <<Sign(x[1]) * (IF y[1] < 0 THEN -1 ELSE 1), 0>>)
    ELSE IF IsInf(y) THEN F(0)
    ELSE IF y[1] = 0 THEN (IF x[1] = 0 THEN NaN ELSE <<Sign(x[1]), 0>>)
    ELSE Norm(x[1] * y[2], x[2] * y[1])

\* x < y, false when either is NaN
FLt(x, y) ==
    IF IsNaN(x) \/ IsNaN(y) THEN FALSE
    ELSE IF IsInf(x) /\ IsInf(y) THEN x[1] < y[1]
    ELSE x[1] * y[2] < y[1] * x[2]

FEq(x, y) == ~IsNaN(x) /\ ~IsNaN(y) /\ x = y

FLe(x, y) == FLt(x, y) \/ FEq(x, y)

FGt(x, y) == FLt(y, x)

FGe(x, y) == FLe(y, x)

\* math.Min / math.Max of the Go standard library: an infinity of the
\* favoured sign wins even over NaN, otherwise NaN propagates
MathMin(x, y) ==
    IF x = NegInf \/ y = NegInf THEN NegInf
    ELSE IF IsNaN(x) \/ IsNaN(y) THEN NaN
    ELSE IF FLt(x, y) THEN x ELSE y

MathMax(x, y) ==
    IF x = PosInf \/ y = PosInf THEN PosInf
    ELSE IF IsNaN(x) \/ IsNaN(y) THEN NaN
    ELSE IF FGt(x, y) THEN x ELSE y

MathAbs(x) == <<Abs(x[1]), x[2]>>

(***************************************************************************)
(* Membership functions                                                    *)
(***************************************************************************)
Constant(y) == [k |-> "Constant", p |-> <<y>>, ms |-> <<>>]

Linear(x1, x2) == [k |-> "Linear", p |-> <<x1, x2>>, ms |-> <<>>]

Step(x1) == Linear(x1, x1)

Triangular(x1, x2, x3) == [k |-> "Triangular", p |-> <<x1, x2, x3>>, ms |-> <<>>]

Trapezoid(x1, x2, x3, x4) == [k |-> "Trapezoid", p |-> <<x1, x2, x3, x4>>, ms |-> <<>>]

Inverted(m) == [k |-> "Inverted", p |-> <<>>, ms |-> <<m>>]

Min(ms) == [k |-> "Min", p |-> <<>>, ms |-> ms]

\* mutant: the memberships are aggregated by their minimum
MaxOfLeast(ms) == Min(ms)

Max(ms) == [k |-> "Max", p |-> <<>>, ms |-> ms]

ConstantValue(m, x) == m.p[1]

LinearValue(m, x) ==
    LET x1 == m.p[1]
        x2 == m.p[2]
    IN  IF FEq(x1, x2) THEN (IF FLt(x, x1) THEN F(0) ELSE F(1))
        ELSE IF FLt(x, x1) THEN F(0)
        ELSE IF FLe(x, x2) THEN FDiv(FSub(x, x1), FSub(x2, x1))
        ELSE F(1)

TriangularValue(m, x) ==
    LET x1 == m.p[1]
        x2 == m.p[2]
        x3 == m.p[3]
    IN  IF FLt(x1, x) /\ FLt(x, x2) THEN FDiv(FSub(x, x1), FSub(x2, x1))
        ELSE IF FLe(x2, x) /\ FLe(x, x3) THEN FDiv(FSub(x3, x), FSub(x3, x2))
        ELSE F(0)

TrapezoidValue(m, x) ==
    LET x1 == m.p[1]
        x2 == m.p[2]
        x3 == m.p[3]
        x4 == m.p[4]
    IN  IF FLt(x1, x) /\ FLt(x, x2)
        THEN (IF FEq(x1, x2) THEN F(1) ELSE FDiv(FSub(x, x1), FSub(x2, x1)))
        ELSE IF FLe(x2, x) /\ FLe(x, x3) THEN F(1)
        ELSE IF FLt(x3, x) /\ FLt(x, x4)
        THEN (IF FEq(x3, x4) THEN F(1) ELSE FDiv(FSub(x4, x), FSub(x4, x3)))
        ELSE F(0)

RECURSIVE FoldMin(_, _, _)
FoldMin(vs, i, acc) ==
    IF i > Len(vs) THEN acc ELSE FoldMin(vs, i + 1, MathMin(acc, vs[i]))

RECURSIVE FoldMax(_, _, _)
FoldMax(vs, i, acc) ==
    IF i > Len(vs) THEN acc ELSE FoldMax(vs, i + 1, MathMax(acc, vs[i]))

\* Membership.Value(x)
RECURSIVE Value(_, _)
Value(m, x) ==
    CASE m.k = "Constant" -> ConstantValue(m, x)
      [] m.k = "Linear" -> LinearValue(m, x)
      [] m.k = "Triangular" -> TriangularValue(m, x)
      [] m.k = "Trapezoid" -> TrapezoidValue(m, x)
      [] m.k = "Inverted" -> FSub(F(1), Value(m.ms[1], x))
      [] m.k = "Min" -> FoldMin([i \in 1..Len(m.ms) |-> Value(m.ms[i], x)], 1, PosInf)
      [] m.k = "Max" -> FoldMax([i \in 1..Len(m.ms) |-> Value(m.ms[i], x)], 1, NegInf)

\* membershipsDomain: <<min of the lower bounds, max of the upper bounds>>
membershipsDomain(ds) ==
    <<FoldMin([i \in 1..Len(ds) |-> ds[i][1]], 1, PosInf),
      FoldMax([i \in 1..Len(ds) |-> ds[i][2]], 1, NegInf)>>

\* Membership.Domain()
RECURSIVE Domain(_)
Domain(m) ==
    CASE m.k = "Constant" -> <<m.p[1], m.p[1]>>
      [] m.k = "Linear" -> <<m.p[1], m.p[2]>>
      [] m.k = "Triangular" -> <<m.p[1], m.p[3]>>
      [] m.k = "Trapezoid" -> <<m.p[1], m.p[4]>>
      [] m.k = "Inverted" -> Domain(m.ms[1])
      [] m.k \in {"Min", "Max"} ->
            membershipsDomain([i \in 1..Len(m.ms) |-> Domain(m.ms[i])])

(***************************************************************************)
(* Maps (Go map[string]T): functions whose domain is a finite set of keys  *)
(***************************************************************************)
EmptyMap == [x \in {} |-> x]

Put(m, key, v) == [x \in DOMAIN m \cup {key} |-> IF x = key THEN v ELSE m[x]]

\* the orders in which a range loop can visit the keys of a map
Orders(S) == {o \in [1..Cardinality(S) -> S] : \A x \in S : \E i \in DOMAIN o : o[i] = x}

(***************************************************************************)
(* Errors                                                                  *)
(***************************************************************************)
ErrMissingArguments == "missing arguments"
ErrUndefinedVariable == "undefined variable"
ErrValueNotFound == "value not found"
ErrUndefinedTerm == "undefined term"
ErrVariableAlreadyExists == "variable already exists"
ErrTermAlreadyExists == "term already exists"
NoError == ""

(***************************************************************************)
(* Variables and terms                                                     *)
(***************************************************************************)
NewTerm(name, membership) == [name |-> name, membership |-> membership]

HasDuplicateName(xs) == \E i, j \in 1..Len(xs) : i < j /\ xs[i].name = xs[j].name

\* NewVariable: the terms indexed by name, the universe the union of their
\* domains; panic names the error of the panic, "" when there is none
NewVariable(name, terms) ==
    [name |-> name,
     terms |-> [t \in {terms[i].name : i \in 1..Len(terms)} |->
                  (CHOOSE i \in 1..Len(terms) : terms[i].name = t) ],
     list |-> terms,
     universeMin |-> FoldMin([i \in 1..Len(terms) |-> Domain(terms[i].membership)[1]], 1, PosInf),
     universeMax |-> FoldMax([i \in 1..Len(terms) |-> Domain(terms[i].membership)[2]], 1, NegInf),
     panic |-> IF HasDuplicateName(terms) THEN ErrTermAlreadyExists ELSE NoError]

\* Variable.Term(name)
VariableTerm(v, name) ==
    IF name \in DOMAIN v.terms
    THEN [term |-> v.list[v.terms[name]], err |-> NoError]
    ELSE [term |-> NewTerm("", Constant(F(0))), err |-> ErrUndefinedTerm]

(***************************************************************************)
(* Context                                                                 *)
(***************************************************************************)
\* NewContext: panics on the second variable of a name
NewContext(variables, inputs) ==
    [variables |-> [n \in {variables[i].name : i \in 1..Len(variables)} |->
                      variables[CHOOSE i \in 1..Len(variables) : variables[i].name = n]],
     inputs |-> inputs,
     results |-> EmptyMap,
     panic |-> IF HasDuplicateName(variables) THEN ErrVariableAlreadyExists ELSE NoError]

\* Context.Variable(name)
ContextVariable(ctx, name) ==
    IF name \in DOMAIN ctx.variables
    THEN [variable |-> ctx.variables[name], err |-> NoError]
    ELSE [variable |-> NewVariable("", <<>>), err |-> ErrUndefinedVariable]

\* Context.Value(variable)
ContextValue(ctx, variable) ==
    IF variable \in DOMAIN ctx.inputs
    THEN [v |-> ctx.inputs[variable], err |-> NoError]
    ELSE [v |-> F(0), err |-> ErrValueNotFound]

NewResult(term, truthDegree, membership) ==
    [term |-> term, truthDegree |-> truthDegree, membership |-> membership]

\* mutant: the last rule's truth degree replaces the one kept
MergeTruthDegreeLastWins(existing, truthDegree) == truthDegree

\* the truth degree kept for a (variable, term) pair when a rule adds one
MergeTruthDegree(existing, truthDegree) == MathMax(existing, truthDegree)

\* Context.AddResult(variable, term, truthDegree)
AddResult(ctx, variable, term, truthDegree) ==
    LET terms == IF variable \in DOMAIN ctx.results THEN ctx.results[variable] ELSE EmptyMap
        exists == term.name \in DOMAIN terms
        clippedMembership == Min(<<Constant(truthDegree), term.membership>>)
        membership == IF exists
                      THEN Max(<<terms[term.name].membership, clippedMembership>>)
                      ELSE clippedMembership
        before == IF exists THEN terms[term.name].truthDegree ELSE truthDegree
        result == NewResult(term.name, MergeTruthDegree(before, truthDegree), membership)
    IN  [ctx EXCEPT !.results = Put(ctx.results, variable, Put(terms, term.name, result))]

(***************************************************************************)
(* Expressions                                                             *)
(***************************************************************************)
Is(variable, term) == [k |-> "Is", variable |-> variable, term |-> term, exprs |-> <<>>]

And(exprs) == [k |-> "And", variable |-> "", term |-> "", exprs |-> exprs]

Or(exprs) == [k |-> "Or", variable |-> "", term |-> "", exprs |-> exprs]

Not(expr) == [k |-> "Not", variable |-> "", term |-> "", exprs |-> <<expr>>]

Failed(err) == [v |-> F(0), err |-> err]

Ok(v) == [v |-> v, err |-> NoError]

\* mutant: the input value is looked up before the term
IsValueValueFirst(e, ctx) ==
    LET variable == ContextVariable(ctx, e.variable)
        term == VariableTerm(variable.variable, e.term)
        value == ContextValue(ctx, e.variable)
    IN  IF variable.err # NoError THEN [v |-> F(0), err |-> variable.err]
        ELSE IF value.err # NoError THEN [v |-> F(0), err |-> value.err]
        ELSE IF term.err # NoError THEN [v |-> F(0), err |-> term.err]
        ELSE [v |-> Value(term.term.membership, value.v), err |-> NoError]

\* IsExpr.Value
IsValue(e, ctx) ==
    LET variable == ContextVariable(ctx, e.variable)
        term == VariableTerm(variable.variable, e.term)
        value == ContextValue(ctx, e.variable)
    IN  IF variable.err # NoError THEN Failed(variable.err)
        ELSE IF term.err # NoError THEN Failed(term.err)
        ELSE IF value.err # NoError THEN Failed(value.err)
        ELSE Ok(Value(term.term.membership, value.v))

\* mutant: the loop keeps the value of the last child
KeepLast(acc, v) == v

\* one iteration of the loop of AndExpr.Value
AndStep(min, v) == MathMin(min, v)

\* one iteration of the loop of OrExpr.Value
OrStep(max, v) == MathMax(max, v)

\* the result of NotExpr.Value for the value of its child
NotOf(v) == FSub(F(1), v)

RECURSIVE ExprValue(_, _)
RECURSIVE AndLoop(_, _, _, _)
RECURSIVE OrLoop(_, _, _, _)

AndLoop(exprs, i, min, ctx) ==
    IF i > Len(exprs) THEN Ok(min)
    ELSE LET r == ExprValue(exprs[i], ctx)
         IN  IF r.err # NoError THEN Failed(r.err)
             ELSE AndLoop(exprs, i + 1, AndStep(min, r.v), ctx)

OrLoop(exprs, i, max, ctx) ==
    IF i > Len(exprs) THEN Ok(max)
    ELSE LET r == ExprValue(exprs[i], ctx)
         IN  IF r.err # NoError THEN Failed(r.err)
             ELSE OrLoop(exprs, i + 1, OrStep(max, r.v), ctx)

\* Expr.Value(ctx)
ExprValue(e, ctx) ==
    CASE e.k = "Is" -> IsValue(e, ctx)
      [] e.k = "And" -> AndLoop(e.exprs, 1, PosInf, ctx)
      [] e.k = "Or" -> OrLoop(e.exprs, 1, NegInf, ctx)
      [] e.k = "Not" ->
            LET r == ExprValue(e.exprs[1], ctx)
            IN  IF r.err # NoError THEN Failed(r.err) ELSE Ok(NotOf(r.v))

\* If(premise).Then(variable, term)
NewRule(premise, variable, term) == [premise |-> premise, conclusion |-> Is(variable, term)]

(***************************************************************************)
(* Defuzzification                                                         *)
(***************************************************************************)
MidPoint(min, max) == FDiv(FAdd(min, max), F(2))

\* what Centroid returns without sampling
CentroidDegenerate(min, max) == F(0)

\* the sampling loop of Centroid: for x := min; x <= max; x += step
RECURSIVE CentroidLoop(_, _, _, _, _, _)
CentroidLoop(m, x, max, step, num, den) ==
    IF ~FLe(x, max) THEN <<num, den>>
    ELSE LET y == Value(m, x)
         IN  CentroidLoop(m, FAdd(x, step), max, step, FAdd(num, FMul(y, x)), FAdd(den, y))

Centroid(steps, m, min, max) ==
    IF IsInf(min) \/ IsInf(max) \/ FGe(min, max) THEN CentroidDegenerate(min, max)
    ELSE LET step == MathMax(FDiv(F(1), F(steps)), FDiv(FSub(max, min), F(steps)))
             s == CentroidLoop(m, min, max, step, F(0), F(0))
         IN  IF FEq(s[2], F(0)) THEN MidPoint(min, max) ELSE FDiv(s[1], s[2])

\* the first loop of MeanOfMaximum: the largest sampled membership value
RECURSIVE MaxLoop(_, _, _, _, _)
MaxLoop(m, x, max, step, best) ==
    IF ~FLe(x, max) THEN best
    ELSE LET y == Value(m, x)
         IN  MaxLoop(m, FAdd(x, step), max, step, IF FGt(y, best) THEN y ELSE best)

\* const epsilon = 1e-9, as the denominator of 1/10^9
EpsilonDen == 1000000000

\* x < epsilon for x >= 0, computed without leaving the 32-bit integers
BelowEpsilon(x) == IsFinite(x) /\ x[1] <= (x[2] - 1) \div EpsilonDen

\* the second loop: the sampled x whose value is within epsilon of the largest
RECURSIVE MaxValuesLoop(_, _, _, _, _, _)
MaxValuesLoop(m, x, max, step, best, acc) ==
    IF ~FLe(x, max) THEN acc
    ELSE LET y == Value(m, x)
         IN  MaxValuesLoop(m, FAdd(x, step), max, step, best,
                           IF BelowEpsilon(MathAbs(FSub(y, best))) THEN Append(acc, x) ELSE acc)

RECURSIVE FSum(_, _)
FSum(xs, i) == IF i > Len(xs) THEN F(0) ELSE FAdd(xs[i], FSum(xs, i + 1))

MeanOfMaximum(steps, m, min, max) ==
    IF IsInf(min) \/ IsInf(max) \/ FGe(min, max) THEN MidPoint(min, max)
    ELSE LET step == FDiv(FSub(max, min), F(steps))
             maxMembershipValue == MaxLoop(m, min, max, step, F(0))
             maxValues == MaxValuesLoop(m, min, max, step, maxMembershipValue, <<>>)
         IN  IF FEq(maxMembershipValue, F(0)) THEN MidPoint(min, max)
             ELSE IF Len(maxValues) = 0 THEN MidPoint(min, max)
             ELSE FDiv(FSum(maxValues, 1), F(Len(maxValues)))

\* a DefuzzifyFunc applied: fn is [kind |-> "Centroid" or "MeanOfMaximum", steps |-> n]
CallDefuzzify(fn, m, min, max) ==
    IF fn.kind = "Centroid" THEN Centroid(fn.steps, m, min, max)
    ELSE MeanOfMaximum(fn.steps, m, min, max)

(***************************************************************************)
(* Engine                                                                  *)
(***************************************************************************)
NewEngine(defuzzify) == [rules |-> <<>>, variables |-> <<>>, defuzzify |-> defuzzify]

\* mutant: the new variables are appended to the list
SetVariablesAppend(e, variables) == [e EXCEPT !.variables = e.variables \o variables]

\* Engine.Variables(variables...)
SetVariables(e, variables) == [e EXCEPT !.variables = variables]

\* Engine.Rules(rules...)
SetRules(e, rules) == [e EXCEPT !.rules = rules]

\* mutant: the results gathered so far are returned with the error
InferFailPartial(ctx, err) == [results |-> ctx.results, isNil |-> FALSE, err |-> err, panic |-> NoError]

\* the return of Infer when a rule fails: no Results, the error
InferFail(ctx, err) == [results |-> EmptyMap, isNil |-> TRUE, err |-> err, panic |-> NoError]

\* mutant: a rule whose premise evaluates to 0 adds no result
InferRuleSkipZero(ctx, r) ==
    LET outputVariable == ContextVariable(ctx, r.conclusion.variable)
        outputTerm == VariableTerm(outputVariable.variable, r.conclusion.term)
        truthDegree == ExprValue(r.premise, ctx)
    IN  IF outputVariable.err # NoError THEN [ctx |-> ctx, err |-> outputVariable.err]
        ELSE IF outputTerm.err # NoError THEN [ctx |-> ctx, err |-> outputTerm.err]
        ELSE IF truthDegree.err # NoError THEN [ctx |-> ctx, err |-> truthDegree.err]
        ELSE IF FEq(truthDegree.v, F(0)) THEN [ctx |-> ctx, err |-> NoError]
        ELSE [ctx |-> AddResult(ctx, r.conclusion.variable, outputTerm.term, truthDegree.v),
              err |-> NoError]

\* mutant: the premise is evaluated before the conclusion is resolved
InferRulePremiseFirst(ctx, r) ==
    LET outputVariable == ContextVariable(ctx, r.conclusion.variable)
        outputTerm == VariableTerm(outputVariable.variable, r.conclusion.term)
        truthDegree == ExprValue(r.premise, ctx)
    IN  IF truthDegree.err # NoError THEN [ctx |-> ctx, err |-> truthDegree.err]
        ELSE IF outputVariable.err # NoError THEN [ctx |-> ctx, err |-> outputVariable.err]
        ELSE IF outputTerm.err # NoError THEN [ctx |-> ctx, err |-> outputTerm.err]
        ELSE [ctx |-> AddResult(ctx, r.conclusion.variable, outputTerm.term, truthDegree.v),
              err |-> NoError]

\* the body of the loop of Infer for rule r: the context after it, or the error
InferRule(ctx, r) ==
    LET outputVariable == ContextVariable(ctx, r.conclusion.variable)
        outputTerm == VariableTerm(outputVariable.variable, r.conclusion.term)
        truthDegree == ExprValue(r.premise, ctx)
    IN  IF outputVariable.err # NoError THEN [ctx |-> ctx, err |-> outputVariable.err]
        ELSE IF outputTerm.err # NoError THEN [ctx |-> ctx, err |-> outputTerm.err]
        ELSE IF truthDegree.err # NoError THEN [ctx |-> ctx, err |-> truthDegree.err]
        ELSE [ctx |-> AddResult(ctx, r.conclusion.variable, outputTerm.term, truthDegree.v),
              err |-> NoError]

RECURSIVE InferLoop(_, _, _)
InferLoop(ctx, rules, i) ==
    IF i > Len(rules)
    THEN [results |-> ctx.results, isNil |-> FALSE, err |-> NoError, panic |-> NoError]
    ELSE LET s == InferRule(ctx, rules[i])
         IN  IF s.err # NoError THEN InferFail(s.ctx, s.err)
             ELSE InferLoop(s.ctx, rules, i + 1)

\* Engine.Infer(values)
Infer(e, values) ==
    LET ctx == NewContext(e.variables, values)
    IN  IF ctx.panic # NoError
        THEN [results |-> EmptyMap, isNil |-> TRUE, err |-> NoError, panic |-> ctx.panic]
        ELSE InferLoop(ctx, e.rules, 1)

\* mutant: the rule list is the one the engine held when Infer was entered
InferRulesReadAtEntry(atEntry, atLoop) == atEntry

\* the rule list Infer ranges over: e.rules is read when the loop starts,
\* after NewContext has returned, not when Infer is entered
InferRulesRead(atEntry, atLoop) == atLoop

\* mutant: Infer consumes the rules it has applied
InferReceiverDrained(e, values) == [e EXCEPT !.rules = <<>>]

\* the Engine after Infer(values): Infer reads e.variables and e.rules and
\* assigns to no field of its receiver
InferReceiver(e, values) == e

\* the variable Defuzzify looks up: the index of the first one of that name, 0 if none
TargetVariable(e, variableName) ==
    IF \E i \in 1..Len(e.variables) : e.variables[i].name = variableName
    THEN CHOOSE i \in 1..Len(e.variables) :
            /\ e.variables[i].name = variableName
            /\ \A j \in 1..(i - 1) : e.variables[j].name # variableName
    ELSE 0

\* mutant: an empty entry of the variable is not taken for no results
NoResultsMissingOnly(res, variableName) == variableName \notin DOMAIN res

\* whether Defuzzify returns the midpoint without calling the defuzzify function
NoResults(res, variableName) ==
    variableName \notin DOMAIN res \/ DOMAIN res[variableName] = {}

\* Engine.Defuzzify(variableName, results); order is the order in which the
\* range loop visits the variable's results
Defuzzify(e, variableName, res, order) ==
    LET t == TargetVariable(e, variableName)
        v == e.variables[t]
        finalMembership == Max([i \in 1..Len(order) |-> res[variableName][order[i]].membership])
    IN  IF t = 0 THEN [value |-> F(0), err |-> ErrUndefinedVariable, called |-> FALSE]
        ELSE IF NoResults(res, variableName)
        THEN [value |-> MidPoint(v.universeMin, v.universeMax), err |-> NoError, called |-> FALSE]
        ELSE [value |-> CallDefuzzify(e.defuzzify, finalMembership, v.universeMin, v.universeMax),
              err |-> NoError, called |-> TRUE]

(***************************************************************************)
(* Results                                                                 *)
(***************************************************************************)
\* mutant: the comparison is reversed
Worse(res, best) == FLt(res.truthDegree, best.truthDegree)

\* whether the range loop of Best replaces best by res
Better(res, best) == FGt(res.truthDegree, best.truthDegree)

\* the loop of Results.Best over the variable's results visited in order:
\* the index in order of the best, 0 when there is none
RECURSIVE BestLoop(_, _, _, _)
BestLoop(terms, order, i, best) ==
    IF i > Len(order) THEN best
    ELSE BestLoop(terms, order, i + 1,
                  IF best = 0 \/ Better(terms[order[i]], terms[order[best]]) THEN i ELSE best)

\* whether Best reports not-found for the result the loop ends with
NotFound(terms, order, best) == best = 0 \/ FEq(terms[order[best]].truthDegree, F(0))

\* Results.Best(variable)
Best(res, variable, order) ==
    LET terms == IF variable \in DOMAIN res THEN res[variable] ELSE EmptyMap
        best == BestLoop(terms, order, 1, 0)
    IN  IF NotFound(terms, order, best)
        THEN [found |-> FALSE, result |-> NewResult("", F(0), Constant(F(0)))]
        ELSE [found |-> TRUE, result |-> terms[order[best]]]

\* the variable names of the catalogue in the order of sort.Strings
SortedNames == <<"ac", "fan", "h", "t", "zz">>

RECURSIVE SortStrings(_, _)
SortStrings(names, i) ==
    IF i > Len(SortedNames) THEN <<>>
    ELSE (IF SortedNames[i] \in names THEN <<SortedNames[i]>> ELSE <<>>)
         \o SortStrings(names, i + 1)

\* Results.Variables()
ResultsVariables(res) == SortStrings(DOMAIN res, 1)

\* the orders in which a range loop visits the results of a variable
ResultOrders(res, variable) ==
    Orders(IF variable \in DOMAIN res THEN DOMAIN res[variable] ELSE {})

(***************************************************************************)
(* package dsl: tokens                                                     *)
(*                                                                         *)
(* A token is [type, value]; current is the 0-based cursor of the Go code, *)
(* token i of the code is tokens[i + 1] here.  The Position of a token is  *)
(* modelled by its index; FallbackPos is Position{Line: 1, Column: 1}.     *)
(***************************************************************************)
tokenIF == "IF"
tokenIS == "IS"
tokenTHEN == "THEN"
tokenAND == "AND"
tokenOR == "OR"
tokenNOT == "NOT"
tokenSEMI == ";"
tokenVAR == "VARIABLE"
tokenTERM == "TERM"
tokenLPAREN == "("
tokenRPAREN == ")"
tokenDEFINE == "DEFINE"
tokenCOMMA == ","
tokenLINEAR == "LINEAR"
tokenTRIANGULAR == "TRIANGULAR"
tokenTRAPEZOID == "TRAPEZOID"
tokenINVERTED == "INVERTED"

Keywords ==
    {tokenIF, tokenIS, tokenTHEN, tokenAND, tokenOR, tokenNOT, tokenSEMI, tokenTERM,
     tokenLPAREN, tokenRPAREN, tokenDEFINE, tokenCOMMA, tokenLINEAR, tokenTRIANGULAR,
     tokenTRAPEZOID, tokenINVERTED}

\* a text is the sequence of its characters, each a one-character string;
\* character i of the code is input[i + 1] here
Newline == "\n"

\* strings.IndexByte(input[i:], '\n'): the offset from i of the first
\* newline at or after i, -1 when there is none
RECURSIVE IndexNewline(_, _, _)
IndexNewline(input, i, offset) ==
    IF i + offset >= Len(input) THEN 0 - 1
    ELSE IF input[i + offset + 1] = Newline THEN offset
    ELSE IndexNewline(input, i, offset + 1)

\* n spaces
Spaces(n) == [j \in 1..n |-> " "]

\* input[i] == c0 && input[i+1] == c1, guarded by i+1 < len(input)
StartsWith(input, i, c0, c1) ==
    i + 1 < Len(input) /\ input[i + 1] = c0 /\ input[i + 2] = c1

\* the loop of removeComments
RECURSIVE removeCommentsLoop(_, _, _, _)
removeCommentsLoop(input, i, inMultilineComment, result) ==
    IF i >= Len(input) THEN result
    ELSE IF inMultilineComment
    THEN IF StartsWith(input, i, "*", "/")
         THEN removeCommentsLoop(input, i + 2, FALSE, Append(result, " "))
         ELSE removeCommentsLoop(input, i + 1, TRUE,
                  Append(result, IF input[i + 1] = Newline THEN Newline ELSE " "))
    ELSE IF StartsWith(input, i, "/", "/")
    THEN IF IndexNewline(input, i, 0) = 0 - 1
         THEN Append(result, Newline)
         ELSE removeCommentsLoop(input, i + IndexNewline(input, i, 0) + 1, FALSE,
                  Append(result \o Spaces(IndexNewline(input, i, 0)), Newline))
    ELSE IF StartsWith(input, i, "/", "*")
    THEN removeCommentsLoop(input, i + 2, TRUE, Append(result, " "))
    ELSE removeCommentsLoop(input, i + 1, FALSE, Append(result, input[i + 1]))

\* removeComments
removeComments(input) == removeCommentsLoop(input, 0, FALSE, <<>>)

\* strings.ToUpper on the spellings the inputs use
ToUpper(word) ==
    CASE word = "if" -> "IF"
      [] word = "is" -> "IS"
      [] word = "then" -> "THEN"
      [] word = "and" -> "AND"
      [] word = "or" -> "OR"
      [] word = "not" -> "NOT"
      [] word = "define" -> "DEFINE"
      [] word = "term" -> "TERM"
      [] word = "linear" -> "LINEAR"
      [] OTHER -> word

\* the token tokenize makes of a word: a keyword whatever its case, else a
\* VARIABLE; the value keeps the spelling of the word
Token(word) ==
    [type |-> IF ToUpper(word) \in Keywords THEN ToUpper(word) ELSE tokenVAR,
     value |-> word]

\* the tokens of a text given as its words
Tokens(words) == [i \in 1..Len(words) |-> Token(words[i])]

InRange(tokens, i) == 0 <= i /\ i < Len(tokens)

TypeAt(tokens, i) == tokens[i + 1].type

ValueAt(tokens, i) == tokens[i + 1].value

\* the condition  current >= len(tokens) || tokens[current].Type != type
Missing(tokens, current, type) ==
    current >= Len(tokens) \/ TypeAt(tokens, current) # type

\* the condition  current < len(tokens) && tokens[current].Type == type
Found(tokens, current, type) ==
    current < Len(tokens) /\ TypeAt(tokens, current) = type

FallbackPos == 0 - 1

IndexPanic == "index out of range"

NoPanic == ""

NoParseError == [msg |-> "", pos |-> 0]

\* newParseError(msg, pos, nil)
newParseError(msg, pos) == [msg |-> msg, pos |-> pos]

NilValue == [k |-> "nil"]

\* the return of a parsing function: has tells a non-nil value, cur is the
\* cursor it leaves, panic names a run-time panic raised on the way
Parsed(val, cur) ==
    [has |-> TRUE, val |-> val, cur |-> cur, err |-> NoParseError, panic |-> NoPanic]

\* a failure whose position is read from tokens[i], which panics out of range
FailAt(tokens, cur, msg, i) ==
    [has |-> FALSE, val |-> NilValue, cur |-> cur, err |-> newParseError(msg, i),
     panic |-> IF InRange(tokens, i) THEN NoPanic ELSE IndexPanic]

Panicked(cur, panic) ==
    [has |-> FALSE, val |-> NilValue, cur |-> cur, err |-> NoParseError, panic |-> panic]

Succeeded(r) == r.panic = NoPanic /\ r.err = NoParseError

\* the position the expression parser reports for the cursor: that of the
\* current token, else of the last one, else line 1, column 1
CursorPos(tokens, current) ==
    IF current < Len(tokens) THEN current
    ELSE IF current > 0 /\ current - 1 < Len(tokens) THEN current - 1
    ELSE FallbackPos

\* a failure reported at CursorPos
FailHere(tokens, cur, msg) ==
    [has |-> FALSE, val |-> NilValue, cur |-> cur,
     err |-> newParseError(msg, CursorPos(tokens, cur)), panic |-> NoPanic]

(***************************************************************************)
(* package dsl: rules and expressions                                      *)
(***************************************************************************)
\* parseIsExpression: val is <<variable, term>>
parseIsExpression(tokens, current) ==
    IF Missing(tokens, current, tokenVAR)
    THEN FailHere(tokens, current, "expected variable name")
    ELSE IF Missing(tokens, current + 1, tokenIS)
    THEN [has |-> FALSE, val |-> NilValue, cur |-> current + 1,
          err |-> newParseError("expected IS after variable", current), panic |-> NoPanic]
    ELSE IF Missing(tokens, current + 2, tokenVAR)
    THEN FailHere(tokens, current + 2, "expected term name after IS")
    ELSE Parsed(<<ValueAt(tokens, current), ValueAt(tokens, current + 2)>>, current + 3)

\* parseSimpleExpression
parseSimpleExpression(tokens, current) ==
    LET r == parseIsExpression(tokens, current)
    IN  IF ~Succeeded(r) THEN r ELSE Parsed(Is(r.val[1], r.val[2]), r.cur)

\* mutant: AND always builds a binary node of its two operands
CombineAndBinary(left, right) == And(<<left, right>>)

\* mutant: AND binds tighter than an OR on its right
CombineAndTighter(left, right) ==
    IF right.k = "Or"
    THEN Or(<<And(<<left, right.exprs[1]>>)>> \o Tail(right.exprs))
    ELSE IF right.k = "And" THEN And(<<left>> \o right.exprs)
    ELSE And(<<left, right>>)

\* the node parseLogicalCombination builds for `left AND right`
CombineAnd(left, right) ==
    IF left.k = "And"
    THEN (IF right.k = "And" THEN And(left.exprs \o right.exprs)
          ELSE And(Append(left.exprs, right)))
    ELSE IF right.k = "And" THEN And(<<left>> \o right.exprs)
    ELSE And(<<left, right>>)

\* the node parseLogicalCombination builds for `left OR right`
CombineOr(left, right) ==
    IF left.k = "Or"
    THEN (IF right.k = "Or" THEN Or(left.exprs \o right.exprs)
          ELSE Or(Append(left.exprs, right)))
    ELSE IF right.k = "Or" THEN Or(<<left>> \o right.exprs)
    ELSE Or(<<left, right>>)

RECURSIVE parseExpression(_, _)
RECURSIVE parseLogicalCombination(_, _, _)

\* parseLogicalCombination(left)
parseLogicalCombination(tokens, current, left) ==
    IF Found(tokens, current, tokenAND)
    THEN LET right == parseExpression(tokens, current + 1)
         IN  IF ~Succeeded(right) THEN right
             ELSE Parsed(CombineAnd(left, right.val), right.cur)
    ELSE IF Found(tokens, current, tokenOR)
    THEN LET right == parseExpression(tokens, current + 1)
         IN  IF ~Succeeded(right) THEN right
             ELSE Parsed(CombineOr(left, right.val), right.cur)
    ELSE Parsed(left, current)

\* the parenthesised expression after the ( at current - 1, then its )
parseGroup(tokens, current) ==
    LET expr == parseExpression(tokens, current)
    IN  IF ~Succeeded(expr) THEN expr
        ELSE IF Missing(tokens, expr.cur, tokenRPAREN)
        THEN FailHere(tokens, expr.cur, "missing closing parenthesis")
        ELSE Parsed(expr.val, expr.cur + 1)

\* parseExpression
parseExpression(tokens, current) ==
    IF Found(tokens, current, tokenNOT)
    THEN IF Found(tokens, current + 1, tokenLPAREN)
         THEN LET g == parseGroup(tokens, current + 2)
              IN  IF ~Succeeded(g) THEN g
                  ELSE parseLogicalCombination(tokens, g.cur, Not(g.val))
         ELSE LET expr == IF Found(tokens, current + 1, tokenVAR)
                          THEN parseSimpleExpression(tokens, current + 1)
                          ELSE parseExpression(tokens, current + 1)
              IN  IF ~Succeeded(expr) THEN expr
                  ELSE parseLogicalCombination(tokens, expr.cur, Not(expr.val))
    ELSE IF Found(tokens, current, tokenLPAREN)
    THEN LET g == parseGroup(tokens, current + 1)
         IN  IF ~Succeeded(g) THEN g
             ELSE parseLogicalCombination(tokens, g.cur, g.val)
    ELSE LET expr == parseSimpleExpression(tokens, current)
         IN  IF ~Succeeded(expr) THEN expr
             ELSE parseLogicalCombination(tokens, expr.cur, expr.val)

\* the first index >= current of a token of one of the types, else len(tokens)
RECURSIVE SkipTo(_, _, _)
SkipTo(tokens, current, types) ==
    IF current < Len(tokens) /\ TypeAt(tokens, current) \notin types
    THEN SkipTo(tokens, current + 1, types)
    ELSE current

\* mutant: the recovery leaves the cursor on the token that is not IF
SkipStatementStay(tokens, current) == current

\* the recovery of parseRule from a statement that does not start with IF:
\* the cursor is moved past the next semicolon
SkipStatement(tokens, current) ==
    LET semi == SkipTo(tokens, current, {tokenSEMI})
    IN  IF Found(tokens, semi, tokenSEMI) THEN semi + 1 ELSE semi

\* the recovery of parseRule from a missing semicolon: where it resumes
ResumeAfterRule(tokens, current) == SkipTo(tokens, current, {tokenIF})

\* parseRule, called with current < len(tokens) by parse
parseRule(tokens, current) ==
    IF current >= Len(tokens)
    THEN [has |-> FALSE, val |-> NilValue, cur |-> current, err |-> NoParseError,
          panic |-> NoPanic]
    ELSE IF TypeAt(tokens, current) # tokenIF
    THEN [has |-> FALSE, val |-> NilValue, cur |-> SkipStatement(tokens, current),
          err |-> newParseError("expected rule to start with IF", current), panic |-> NoPanic]
    ELSE LET premise == parseExpression(tokens, current + 1)
         IN  IF ~Succeeded(premise) THEN premise
             ELSE IF Missing(tokens, premise.cur, tokenTHEN)
             THEN FailHere(tokens, premise.cur, "expected THEN after premise")
             ELSE LET c == parseIsExpression(tokens, premise.cur + 1)
                  IN  IF ~Succeeded(c) THEN c
                      ELSE IF Missing(tokens, c.cur, tokenSEMI)
                      THEN [has |-> TRUE,
                            val |-> NewRule(premise.val, c.val[1], c.val[2]),
                            cur |-> ResumeAfterRule(tokens, c.cur),
                            err |-> newParseError("missing semicolon at end of rule",
                                                  CursorPos(tokens, c.cur)),
                            panic |-> NoPanic]
                      ELSE Parsed(NewRule(premise.val, c.val[1], c.val[2]), c.cur + 1)

(***************************************************************************)
(* package dsl: membership functions and variable definitions              *)
(***************************************************************************)
\* strconv.ParseFloat on the numerals the inputs use; any other word is
\* not a number
Numerals ==
    [w \in {"0", "1", "2", "4", "10", "-2", "0.5", "1e1"} |->
        CASE w = "0" -> F(0)
          [] w = "1" -> F(1)
          [] w = "2" -> F(2)
          [] w = "4" -> F(4)
          [] w = "10" -> F(10)
          [] w = "-2" -> F(0 - 2)
          [] w = "0.5" -> <<1, 2>>
          [] w = "1e1" -> F(10)]

\* parseFloat(s, pos)
parseFloat(s, pos) ==
    IF s \in DOMAIN Numerals
    THEN [val |-> Numerals[s], err |-> NoParseError]
    ELSE [val |-> F(0), err |-> newParseError("invalid number: " \o s, pos)]

Ordinal == <<"first", "second", "third", "fourth">>

\* the parameters i..n of NAME(x1, ..., xn) and the closing parenthesis,
\* as ParseLinear, ParseTriangular and ParseTrapezoid read them
RECURSIVE ParseParameters(_, _, _, _, _, _)

\* what follows parameter i, x being what parseFloat made of it
ParameterNext(tokens, current, name, i, n, xs, x) ==
    IF x.err # NoParseError
    THEN [has |-> FALSE, val |-> NilValue, cur |-> current, err |-> x.err,
          panic |-> NoPanic]
    ELSE IF i = n
    THEN IF Missing(tokens, current + 1, tokenRPAREN)
         THEN FailAt(tokens, current + 1, "expected ) after " \o name \o " parameters",
                     current)
         ELSE Parsed(Append(xs, x.val), current + 2)
    ELSE IF Missing(tokens, current + 1, tokenCOMMA)
         THEN FailAt(tokens, current + 1, "expected , between parameters", current)
         ELSE ParseParameters(tokens, current + 2, name, i + 1, n, Append(xs, x.val))

ParseParameters(tokens, current, name, i, n, xs) ==
    IF Missing(tokens, current, tokenVAR)
    THEN FailAt(tokens, current, "expected " \o Ordinal[i] \o " parameter for " \o name,
                current - 1)
    ELSE ParameterNext(tokens, current, name, i, n, xs,
                       parseFloat(ValueAt(tokens, current), current))

\* the opening parenthesis and the n parameters of NAME
ParseArguments(tokens, current, name, n) ==
    IF Missing(tokens, current, tokenLPAREN)
    THEN FailAt(tokens, current, "expected ( after " \o name, current - 1)
    ELSE ParseParameters(tokens, current + 1, name, 1, n, <<>>)

\* mutant: LINEAR passes its bounds to Linear as written, reversed or not
MembershipOfAsGiven(name, a) ==
    IF ~Succeeded(a) THEN a
    ELSE CASE name = "LINEAR" -> Parsed(Linear(a.val[1], a.val[2]), a.cur)
           [] name = "TRIANGULAR" ->
                Parsed(Triangular(a.val[1], a.val[2], a.val[3]), a.cur)
           [] name = "TRAPEZOID" ->
                Parsed(Trapezoid(a.val[1], a.val[2], a.val[3], a.val[4]), a.cur)

\* the membership function ParseLinear, ParseTriangular and ParseTrapezoid
\* build of the arguments a they read: LINEAR(x1, x2) ascends from x1 to x2
\* when x1 < x2, descends from x2 to x1 when x1 > x2, steps at x1 otherwise
MembershipOf(name, a) ==
    IF ~Succeeded(a) THEN a
    ELSE CASE name = "LINEAR" ->
                IF FLt(a.val[1], a.val[2]) THEN Parsed(Linear(a.val[1], a.val[2]), a.cur)
                ELSE IF FGt(a.val[1], a.val[2])
                THEN Parsed(Inverted(Linear(a.val[2], a.val[1])), a.cur)
                ELSE Parsed(Step(a.val[1]), a.cur)
           [] name = "TRIANGULAR" ->
                Parsed(Triangular(a.val[1], a.val[2], a.val[3]), a.cur)
           [] name = "TRAPEZOID" ->
                Parsed(Trapezoid(a.val[1], a.val[2], a.val[3], a.val[4]), a.cur)

\* ParseLinear
ParseLinear(tokens, current) ==
    MembershipOf("LINEAR", ParseArguments(tokens, current, "LINEAR", 2))

\* ParseTriangular
ParseTriangular(tokens, current) ==
    MembershipOf("TRIANGULAR", ParseArguments(tokens, current, "TRIANGULAR", 3))

\* ParseTrapezoid
ParseTrapezoid(tokens, current) ==
    MembershipOf("TRAPEZOID", ParseArguments(tokens, current, "TRAPEZOID", 4))

\* DefaultMemberships: the parser registered for each function type
DefaultMemberships ==
    [t \in {tokenLINEAR, tokenTRIANGULAR, tokenTRAPEZOID, tokenINVERTED} |->
        CASE t = tokenLINEAR -> "ParseLinear"
          [] t = tokenTRIANGULAR -> "ParseTriangular"
          [] t = tokenTRAPEZOID -> "ParseTrapezoid"
          [] t = tokenINVERTED -> "ParseInverted"]

RECURSIVE parseMembership(_, _, _)

\* ParseInverted once the inner function was read: its closing parenthesis
InvertedOf(tokens, innerFunc) ==
    IF ~Succeeded(innerFunc) THEN innerFunc
    ELSE IF Missing(tokens, innerFunc.cur, tokenRPAREN)
    THEN FailAt(tokens, innerFunc.cur, "expected ) after INVERTED function",
                innerFunc.cur - 1)
    ELSE Parsed(Inverted(innerFunc.val), innerFunc.cur + 1)

\* ParseInverted, parse being the closure parseMembership
ParseInverted(tokens, current, memberships) ==
    IF Missing(tokens, current, tokenLPAREN)
    THEN FailAt(tokens, current, "expected ( after INVERTED", current - 1)
    ELSE InvertedOf(tokens, parseMembership(tokens, current + 1, memberships))

\* the closure parseMembership of parseMembershipFunction: it reads
\* tokens[current] whatever current is
parseMembership(tokens, current, memberships) ==
    IF ~InRange(tokens, current) THEN Panicked(current, IndexPanic)
    ELSE IF TypeAt(tokens, current) \notin DOMAIN memberships
    THEN FailAt(tokens, current + 1,
                "unknown membership function type: " \o ValueAt(tokens, current), current)
    ELSE CASE memberships[TypeAt(tokens, current)] = "ParseLinear" ->
                ParseLinear(tokens, current + 1)
           [] memberships[TypeAt(tokens, current)] = "ParseTriangular" ->
                ParseTriangular(tokens, current + 1)
           [] memberships[TypeAt(tokens, current)] = "ParseTrapezoid" ->
                ParseTrapezoid(tokens, current + 1)
           [] memberships[TypeAt(tokens, current)] = "ParseInverted" ->
                ParseInverted(tokens, current + 1, memberships)

\* the end of parseMembershipFunction, m being what the closure returned:
\* p.current moves only when the function parsed
MoveCursor(m, current) ==
    IF m.panic = NoPanic /\ m.err # NoParseError THEN [m EXCEPT !.cur = current] ELSE m

\* parseMembershipFunction
parseMembershipFunction(tokens, current, memberships) ==
    IF current >= Len(tokens)
    THEN FailAt(tokens, current, "expected membership function type", current - 1)
    ELSE MoveCursor(parseMembership(tokens, current, memberships), current)

\* the end of parseTermDefinition: the term of the membership function
TermOf(termName, membership) ==
    IF ~Succeeded(membership) THEN membership
    ELSE Parsed(NewTerm(termName, membership.val), membership.cur)

\* parseTermDefinition, called at a TERM token
parseTermDefinition(tokens, current, memberships) ==
    IF Missing(tokens, current + 1, tokenVAR)
    THEN FailAt(tokens, current + 1, "expected term name", current)
    ELSE IF current + 2 >= Len(tokens)
    THEN FailAt(tokens, current + 2, "expected membership function type", current + 1)
    ELSE TermOf(ValueAt(tokens, current + 1),
                parseMembershipFunction(tokens, current + 2, memberships))

RECURSIVE TermsLoop(_, _, _, _)

\* the loop of parseVariableDefinition once a term definition was read: the
\* term is kept and a comma after it skipped
TermsNext(tokens, memberships, terms, term) ==
    IF ~Succeeded(term) THEN term
    ELSE TermsLoop(tokens,
                   IF Found(tokens, term.cur, tokenCOMMA) THEN term.cur + 1 ELSE term.cur,
                   memberships, Append(terms, term.val))

\* the loop of parseVariableDefinition over the term definitions
TermsLoop(tokens, current, memberships, terms) ==
    IF current < Len(tokens) /\ TypeAt(tokens, current) # tokenRPAREN
    THEN IF TypeAt(tokens, current) # tokenTERM
         THEN FailAt(tokens, current, "expected TERM in variable definition", current)
         ELSE TermsNext(tokens, memberships, terms,
                        parseTermDefinition(tokens, current, memberships))
    ELSE Parsed(terms, current)

\* fuzzy.NewVariable(variableName, terms...) as parseVariableDefinition
\* returns it: NewVariable panics on a term name met twice
VariableOf(variable, current) ==
    IF variable.panic # NoError THEN Panicked(current, variable.panic)
    ELSE Parsed(variable, current)

\* the end of parseVariableDefinition, terms being what the loop read
VariableEnd(tokens, variableName, terms) ==
    IF ~Succeeded(terms) THEN terms
    ELSE IF Missing(tokens, terms.cur, tokenRPAREN)
    THEN FailAt(tokens, terms.cur, "expected ) at end of variable definition",
                terms.cur - 1)
    ELSE IF Missing(tokens, terms.cur + 1, tokenSEMI)
    THEN FailAt(tokens, terms.cur + 1, "expected ; after variable definition", terms.cur)
    ELSE VariableOf(NewVariable(variableName, terms.val), terms.cur + 2)

\* parseVariableDefinition, called at a DEFINE token
parseVariableDefinition(tokens, current, memberships) ==
    IF Missing(tokens, current + 1, tokenVAR)
    THEN FailAt(tokens, current + 1, "expected variable name after DEFINE", current)
    ELSE IF Missing(tokens, current + 2, tokenLPAREN)
    THEN FailAt(tokens, current + 2, "expected ( after variable name", current + 1)
    ELSE VariableEnd(tokens, ValueAt(tokens, current + 1),
                     TermsLoop(tokens, current + 3, memberships, <<>>))

(***************************************************************************)
(* package dsl: Parser.parse and ParseRulesAndVariables                    *)
(***************************************************************************)
\* no Parser exists
NoParser == [pc |-> "none"]

\* the Parser ParseRulesAndVariables builds, with the locals of parse; pc is
\* "loop" while parse iterates, "done" once it returned, "panic" once a
\* panic left it
NewParser(tokens, memberships) ==
    [pc |-> "loop", tokens |-> tokens, current |-> 0, memberships |-> memberships,
     rules |-> <<>>, variables |-> <<>>, errs |-> <<>>]

\* mutant: the iteration keeps the value and forgets the error
CollectValueOnly(p, r, field) ==
    IF r.panic # NoPanic
    THEN [p EXCEPT !.pc = "panic", !.current = r.cur]
    ELSE [p EXCEPT !.current = r.cur,
                   ![field] = IF r.has THEN Append(@, r.val) ELSE @]

\* one iteration of the loop of parse, r being what parseVariableDefinition
\* or parseRule returned: the error is recorded, the value kept when non-nil
Collect(p, r, field) ==
    IF r.panic # NoPanic
    THEN [p EXCEPT !.pc = "panic", !.current = r.cur]
    ELSE [p EXCEPT !.current = r.cur,
                   !.errs = IF r.err # NoParseError THEN Append(@, r.err) ELSE @,
                   ![field] = IF r.has THEN Append(@, r.val) ELSE @]

\* the iteration of parse at a DEFINE token
parseDefinitionStep(p) ==
    Collect(p, parseVariableDefinition(p.tokens, p.current, p.memberships), "variables")

\* the iteration of parse at any other token
parseRuleStep(p) == Collect(p, parseRule(p.tokens, p.current), "rules")

NilResult == [isNil |-> TRUE, rules |-> <<>>, variables |-> <<>>]

NoErrors == <<>>

\* mutant: parse returns the first recorded error alone
parseReturnFirstError(p) ==
    IF Len(p.errs) > 0
    THEN [result |-> NilResult, err |-> <<p.errs[1]>>]
    ELSE [result |-> [isNil |-> FALSE, rules |-> p.rules, variables |-> p.variables],
          err |-> NoErrors]

\* what parse returns once its loop is over: (nil, the joined errors) when
\* any error was recorded, else the ParseResult
parseReturn(p) ==
    IF Len(p.errs) > 0
    THEN [result |-> NilResult, err |-> p.errs]
    ELSE [result |-> [isNil |-> FALSE, rules |-> p.rules, variables |-> p.variables],
          err |-> NoErrors]

\* what ParseRulesAndVariables returns of the return of parse
ParseRulesAndVariablesReturn(r) ==
    IF r.err # NoErrors THEN [result |-> NilResult, err |-> r.err] ELSE r

\* the loop of parse run to its end: the Parser when parse returns (pc is
\* "done") or when a panic leaves it (pc is "panic")
RECURSIVE parseLoop(_)
parseLoop(p) ==
    IF p.pc # "loop" THEN p
    ELSE IF p.current >= Len(p.tokens) THEN [p EXCEPT !.pc = "done"]
    ELSE IF TypeAt(p.tokens, p.current) = tokenDEFINE THEN parseLoop(parseDefinitionStep(p))
    ELSE parseLoop(parseRuleStep(p))

\* what ParseRules returns, r being what ParseRulesAndVariables returned:
\* (nil, err) on an error, else the rules of the result
ParseRulesReturn(r) ==
    IF r.err # NoErrors THEN [isNil |-> TRUE, rules |-> <<>>, err |-> r.err]
    ELSE [isNil |-> FALSE, rules |-> r.result.rules, err |-> NoErrors]

\* ParseRules on the tokens of its text, p being the Parser at the end of
\* parse; panicked tells that a panic left the call
ParseRulesOf(p) ==
    IF p.pc = "panic"
    THEN [panicked |-> TRUE, isNil |-> TRUE, rules |-> <<>>, err |-> NoErrors]
    ELSE [panicked |-> FALSE] @@ ParseRulesReturn(ParseRulesAndVariablesReturn(parseReturn(p)))

\* ParseRules(dsl), the text given as its words
ParseRules(words) == ParseRulesOf(parseLoop(NewParser(Tokens(words), DefaultMemberships)))

(***************************************************************************)
(* The programs the engine is driven with                                  *)
(***************************************************************************)
MaxRules == 2
Steps == 2

Temperature ==
    NewVariable("t", <<NewTerm("cold", Inverted(Linear(F(0), F(2)))),
                       NewTerm("hot", Linear(F(1), F(2)))>>)

Temperature2 == NewVariable("t", <<NewTerm("warm", Triangular(F(0), F(1), F(2)))>>)

Humidity == NewVariable("h", <<NewTerm("high", Linear(F(0), F(2)))>>)

AcMode ==
    NewVariable("ac", <<NewTerm("heating", Linear(F(0), F(4))),
                        NewTerm("off", Triangular(F(-2), F(0), F(2))),
                        NewTerm("cooling", Inverted(Linear(F(-4), F(0))))>>)

Fan == NewVariable("fan", <<NewTerm("on", Constant(F(1)))>>)

\* the argument lists of the Engine.Variables calls
VariableLists ==
    {<<>>, <<AcMode>>, <<Temperature, Humidity, AcMode>>, <<Temperature2, Humidity, AcMode, Fan>>,
     <<Temperature, Temperature2, AcMode>>}

RuleCatalog ==
    {NewRule(Is("t", "cold"), "ac", "heating"),
     NewRule(Or(<<Is("h", "high"), Is("t", "hot")>>), "ac", "heating"),
     NewRule(And(<<Not(Is("t", "cold")), Is("h", "high")>>), "ac", "cooling"),
     NewRule(Is("t", "warm"), "ac", "off"),
     NewRule(Is("t", "cold"), "zz", "on")}

SeqsUpTo(S, n) == UNION {[1..k -> S] : k \in 0..n}

\* the argument lists of the Engine.Rules calls
RuleLists == SeqsUpTo(RuleCatalog, MaxRules)

\* the input values of the Infer calls
ValueMaps ==
    {[n \in D |-> IF n = "h" THEN F(1) ELSE t] : D \in SUBSET {"t", "h"}, t \in {F(0), F(1), F(2)}}

DefuzzifyFuncs ==
    {[kind |-> "Centroid", steps |-> Steps], [kind |-> "MeanOfMaximum", steps |-> Steps]}

(***************************************************************************)
(* Spec: one engine, configured and queried by one caller                  *)
(***************************************************************************)
Idle == [op |-> "none"]

Init ==
    /\ engine \in {NewEngine(d) : d \in DefuzzifyFuncs}
    /\ parser = NoParser
    /\ out = [op |-> "NewEngine"]
    /\ in = Idle

VariablesCall ==
    \E vs \in VariableLists :
        /\ engine' = SetVariables(engine, vs)
        /\ out' = [op |-> "Variables", args |-> vs, returned |-> engine']
        /\ UNCHANGED <<in, parser>>

RulesCall ==
    \E rs \in RuleLists :
        /\ engine' = SetRules(engine, rs)
        /\ out' = [op |-> "Rules", args |-> rs, returned |-> engine']
        /\ UNCHANGED <<in, parser>>

InferCall ==
    \E values \in ValueMaps :
        /\ out' = [op |-> "Infer", values |-> values, ret |-> Infer(engine, values)]
        /\ engine' = InferReceiver(engine, values)
        /\ UNCHANGED <<in, parser>>

Next == VariablesCall \/ RulesCall \/ InferCall

Spec == Init /\ [][Next]_vars

(***************************************************************************)
(* Properties of Spec                                                      *)
(***************************************************************************)
InferReturned == out.op = "Infer" /\ out.ret.panic = NoError

InferOk == InferReturned /\ out.ret.err = NoError

\* the rules of the engine concluding (variable, term)
Concluding(variable, term) ==
    {i \in 1..Len(engine.rules) :
        /\ engine.rules[i].conclusion.variable = variable
        /\ engine.rules[i].conclusion.term = term}

\* the truth degree of the premise of rule i for the input values of the call
PremiseDegree(i, values) ==
    ExprValue(engine.rules[i].premise, NewContext(engine.variables, values)).v

IsMaxOf(x, S) == x \in S /\ \A y \in S : FLe(y, x)

IsMinOf(x, S) == x \in S /\ \A y \in S : FLe(x, y)

\* C1: after a successful Infer, the truth degree of every concluded
\* (variable, term) pair is the maximum of the premise truth degrees of the
\* rules concluding it, in whatever order the rules are listed.
C1_TruthDegreeIsMax ==
    InferOk =>
        \A i \in 1..Len(engine.rules) :
            LET c == engine.rules[i].conclusion
            IN  /\ c.variable \in DOMAIN out.ret.results
                /\ c.term \in DOMAIN out.ret.results[c.variable]
                /\ IsMaxOf(out.ret.results[c.variable][c.term].truthDegree,
                           {PremiseDegree(j, out.values) : j \in Concluding(c.variable, c.term)})

\* two rules conclude the same pair and the earlier one has the larger degree
C1_Witness ==
    /\ InferOk
    /\ \E i, j \in 1..Len(engine.rules) :
          /\ i < j
          /\ engine.rules[i].conclusion = engine.rules[j].conclusion
          /\ FGt(PremiseDegree(i, out.values), PremiseDegree(j, out.values))

\* C2: when a rule of Infer fails, Infer returns the error and nil Results,
\* also when earlier rules were processed.
C2_ErrorMeansNoResults ==
    (InferReturned /\ out.ret.err # NoError) =>
        (out.ret.isNil /\ out.ret.results = EmptyMap)

\* the second rule fails after the first one added its result
C2_Witness ==
    /\ InferReturned
    /\ out.ret.err # NoError
    /\ Len(engine.rules) = 2
    /\ LET first == InferRule(NewContext(engine.variables, out.values), engine.rules[1])
       IN  first.err = NoError /\ first.ctx.results # EmptyMap

\* the points at which the result memberships are compared
ClipPoints == {Norm(n, 2) : n \in (0 - 10)..10}

\* the membership of the term of the engine's variable
TermMembership(variable, term) ==
    VariableTerm(ContextVariable(NewContext(engine.variables, out.values), variable).variable,
                 term).term.membership

\* C24: after a successful Infer, the membership of the Result of every
\* (variable, term) pair is, at every x, the minimum of the Result's truth
\* degree and the term's membership at x: the maximum of the memberships
\* clipped by each rule is the membership clipped once by the largest degree.
C24_ClippedByLargestDegree ==
    InferOk =>
        \A variable \in DOMAIN out.ret.results :
            \A term \in DOMAIN out.ret.results[variable] :
                \A x \in ClipPoints :
                    LET result == out.ret.results[variable][term]
                    IN  Value(result.membership, x) =
                            MathMin(result.truthDegree, Value(TermMembership(variable, term), x))

\* two rules conclude the same pair with different degrees, and at some
\* point the term's membership lies between the two degrees
C24_Witness ==
    /\ InferOk
    /\ \E i, j \in 1..Len(engine.rules) :
          /\ i # j
          /\ engine.rules[i].conclusion = engine.rules[j].conclusion
          /\ \E x \in ClipPoints :
                LET c == engine.rules[i].conclusion
                    y == Value(TermMembership(c.variable, c.term), x)
                IN  /\ FLt(PremiseDegree(i, out.values), y)
                    /\ FLt(y, PremiseDegree(j, out.values))
                    /\ Value(out.ret.results[c.variable][c.term].membership, x) = y

\* the (variable, term) pairs that have an entry in the Results
ResultPairs(res) == UNION {{<<v, t>> : t \in DOMAIN res[v]} : v \in DOMAIN res}

\* every result of the variable has the truth degree 0
AllZero(res, v) == \A t \in DOMAIN res[v] : FEq(res[v][t].truthDegree, F(0))

\* C25: after a successful Infer the Results has an entry for exactly the
\* (variable, term) pairs concluded by at least one rule, those of rules
\* whose premise evaluated to 0 included; a variable all of whose results
\* have the degree 0 is listed by Variables() and Defuzzify calls the
\* defuzzify function for it, while Best reports not-found.
C25_EntriesAreConclusions ==
    InferOk =>
        LET res == out.ret.results
        IN  /\ ResultPairs(res) =
                  {<<engine.rules[i].conclusion.variable, engine.rules[i].conclusion.term>> :
                      i \in 1..Len(engine.rules)}
            /\ \A v \in DOMAIN res :
                  /\ DOMAIN res[v] # {}
                  /\ \E k \in 1..Len(ResultsVariables(res)) : ResultsVariables(res)[k] = v
                  /\ \A order \in ResultOrders(res, v) :
                        /\ Defuzzify(engine, v, res, order).called
                        /\ AllZero(res, v) => ~Best(res, v, order).found

\* the only rule concluding on the variable has a premise that evaluated to 0
C25_Witness ==
    /\ InferOk
    /\ Len(engine.rules) > 0
    /\ PremiseDegree(1, out.values) = F(0)
    /\ LET c == engine.rules[1].conclusion
           res == out.ret.results
       IN  /\ c.variable \in DOMAIN res
           /\ c.term \in DOMAIN res[c.variable]
           /\ AllZero(res, c.variable)
           /\ \A order \in ResultOrders(res, c.variable) :
                 /\ ~Best(res, c.variable, order).found
                 /\ Defuzzify(engine, c.variable, res, order).called
           /\ ResultsVariables(res) = <<c.variable>>

C8_VariableNamesDistinct ==
    \A i, j \in 1..Len(engine.variables) :
        i # j => engine.variables[i].name # engine.variables[j].name

\* C8 (as claimed, second half): no Infer call meets a duplicate variable name
C8_NoDuplicateAtInfer ==
    out.op = "Infer" => out.ret.panic # ErrVariableAlreadyExists

(***************************************************************************)
(* SpecExpr: Expr.Value on a context built by NewContext                   *)
(***************************************************************************)
MaxArgs == 2

IsCatalog ==
    {Is(v, t) : v \in {"t", "h", "ac", "zz"}, t \in {"cold", "hot", "high", "nope"}}

Operands == {Is("t", "cold"), Is("t", "hot"), Is("h", "high"), Not(Is("t", "hot"))}

OperandLists == SeqsUpTo(Operands, MaxArgs) \ {<<>>}

ExprCatalog ==
    IsCatalog
    \cup {And(es) : es \in OperandLists}
    \cup {Or(es) : es \in OperandLists}
    \cup {Not(e) : e \in Operands}
    \cup {And(<<Or(<<Is("t", "cold"), Is("h", "high")>>), Is("t", "hot")>>),
          Or(<<And(<<Is("t", "cold"), Is("h", "high")>>), Is("t", "hot")>>),
          And(<<Is("h", "high"), Is("zz", "cold"), Is("t", "cold")>>),
          Or(<<Is("h", "high"), Is("t", "nope")>>),
          Not(And(<<Is("t", "cold"), Is("h", "high")>>))}

\* the variable lists NewContext accepts
ContextVariableLists == {vs \in VariableLists : ~HasDuplicateName(vs)}

InitExpr ==
    /\ engine = NewEngine([kind |-> "Centroid", steps |-> Steps])
    /\ parser = NoParser
    /\ in \in [op : {"Value"}, expr : ExprCatalog, variables : ContextVariableLists,
               values : ValueMaps]
    /\ out = Idle

ValueCall ==
    /\ in.op = "Value"
    /\ out = Idle
    /\ out' = [op |-> "Value", ret |-> ExprValue(in.expr, NewContext(in.variables, in.values))]
    /\ UNCHANGED <<engine, in, parser>>

NextExpr == ValueCall

SpecExpr == InitExpr /\ [][NextExpr]_vars

\* the result of evaluating child i of the expression of the call
Child(i) == ExprValue(in.expr.exprs[i], NewContext(in.variables, in.values))

ChildValues == {Child(i).v : i \in 1..Len(in.expr.exprs)}

ChildrenOk == \A i \in 1..Len(in.expr.exprs) : Child(i).err = NoError

\* C9: when every child evaluates without error, And returns the minimum
\* and Or the maximum of the values of all the children, and Not returns 1
\* minus the value of its child.
C9_MinMaxComplement ==
    (out.op = "Value" /\ in.expr.k \in {"And", "Or", "Not"} /\ ChildrenOk) =>
        /\ out.ret.err = NoError
        /\ in.expr.k = "And" => IsMinOf(out.ret.v, ChildValues)
        /\ in.expr.k = "Or" => IsMaxOf(out.ret.v, ChildValues)
        /\ in.expr.k = "Not" => FAdd(out.ret.v, Child(1).v) = F(1)

\* an And whose smallest child is not the last one
C9_Witness ==
    /\ out.op = "Value"
    /\ in.expr.k = "And"
    /\ ChildrenOk
    /\ Len(in.expr.exprs) >= 2
    /\ FLt(Child(1).v, Child(Len(in.expr.exprs)).v)

\* the variables of the context of the call that have the name of the Is
NamedVariables == {i \in 1..Len(in.variables) : in.variables[i].name = in.expr.variable}

\* the terms of that name on the variable of the Is
NamedTerms(i) ==
    {j \in 1..Len(in.variables[i].list) : in.variables[i].list[j].name = in.expr.term}

\* C10: Is.Value reports UndefinedVariable, else UndefinedTerm, else
\* ValueNotFound, in this order when several are missing, and otherwise
\* returns the membership value of the term at the input value.
C10_IsChecksInOrder ==
    (out.op = "Value" /\ in.expr.k = "Is") =>
        IF NamedVariables = {} THEN out.ret.err = ErrUndefinedVariable
        ELSE LET i == CHOOSE i \in NamedVariables : TRUE
             IN  IF NamedTerms(i) = {} THEN out.ret.err = ErrUndefinedTerm
                 ELSE IF in.expr.variable \notin DOMAIN in.values
                      THEN out.ret.err = ErrValueNotFound
                 ELSE LET j == CHOOSE j \in NamedTerms(i) : TRUE
                      IN  /\ out.ret.err = NoError
                          /\ out.ret.v = Value(in.variables[i].list[j].membership,
                                               in.values[in.expr.variable])

\* the term is undefined and the input value is missing too
C10_Witness ==
    /\ out.op = "Value"
    /\ in.expr.k = "Is"
    /\ NamedVariables # {}
    /\ \A i \in NamedVariables : NamedTerms(i) = {}
    /\ in.expr.variable \notin DOMAIN in.values
    /\ out.ret.err = ErrUndefinedTerm

(***************************************************************************)
(* SpecResults: Defuzzify and Best on the Results a caller holds           *)
(***************************************************************************)
ConfiguredEngines ==
    {SetRules(SetVariables(NewEngine(d), vs), rs) :
        d \in DefuzzifyFuncs, vs \in ContextVariableLists, rs \in RuleLists}

\* the Results a caller can pass: those of an Infer call on the engine, an
\* empty Results, and a Results with an empty entry
ResultsOf(e) ==
    {EmptyMap, [n \in {"ac"} |-> EmptyMap]}
    \cup {Infer(e, values).results : values \in {v \in ValueMaps : Infer(e, v).err = NoError}}

VariableNames == {"ac", "h", "fan", "zz"}

InitResults ==
    /\ engine \in ConfiguredEngines
    /\ parser = NoParser
    /\ in \in {[op |-> "Results", results |-> r] : r \in ResultsOf(engine)}
    /\ out = Idle

DefuzzifyCall ==
    /\ in.op = "Results"
    /\ out = Idle
    /\ \E name \in VariableNames :
         \E order \in ResultOrders(in.results, name) :
            out' = [op |-> "Defuzzify", name |-> name, order |-> order,
                    ret |-> Defuzzify(engine, name, in.results, order)]
    /\ UNCHANGED <<engine, in, parser>>

BestCall ==
    /\ in.op = "Results"
    /\ out = Idle
    /\ \E name \in VariableNames :
         \E order \in ResultOrders(in.results, name) :
            out' = [op |-> "Best", name |-> name, order |-> order,
                    ret |-> Best(in.results, name, order)]
    /\ UNCHANGED <<engine, in, parser>>

NextResults == DefuzzifyCall \/ BestCall

SpecResults == InitResults /\ [][NextResults]_vars

\* the results of the variable of the call, as a set
CalledResults ==
    IF out.name \in DOMAIN in.results
    THEN {in.results[out.name][t] : t \in DOMAIN in.results[out.name]}
    ELSE {}

\* C4: Best returns a result of the variable whose truth degree is maximal
\* among the variable's results, and reports not-found exactly when the
\* variable has no results or that maximal truth degree is zero.
C4_BestIsMaximal ==
    out.op = "Best" =>
        /\ out.ret.found =>
              /\ out.ret.result \in CalledResults
              /\ \A r \in CalledResults : FLe(r.truthDegree, out.ret.result.truthDegree)
        /\ ~out.ret.found <=>
              \/ CalledResults = {}
              \/ IsMaxOf(F(0), {r.truthDegree : r \in CalledResults})

\* the best of two results is not the first one the loop visits
C4_Witness ==
    /\ out.op = "Best"
    /\ out.ret.found
    /\ Len(out.order) = 2
    /\ out.ret.result.term = out.order[2]

\* the variables of the engine that have the name of the call
DefinedVariables == {i \in 1..Len(engine.variables) : engine.variables[i].name = out.name}

\* C5: Defuzzify on a variable of the engine with no entry or an empty entry
\* in the results returns (UniverseMin + UniverseMax) / 2, no error, and
\* does not call the defuzzify function; on a name that is no variable of
\* the engine it returns UndefinedVariable.
C5_DefuzzifyWithoutResults ==
    out.op = "Defuzzify" =>
        /\ (DefinedVariables # {} /\ CalledResults = {}) =>
              /\ out.ret.err = NoError
              /\ ~out.ret.called
              /\ \E i \in DefinedVariables :
                    out.ret.value = FDiv(FAdd(engine.variables[i].universeMin,
                                              engine.variables[i].universeMax), F(2))
        /\ DefinedVariables = {} => out.ret.err = ErrUndefinedVariable

\* the variable is defined and its entry in the results is empty
C5_Witness ==
    /\ out.op = "Defuzzify"
    /\ DefinedVariables # {}
    /\ out.name \in DOMAIN in.results
    /\ CalledResults = {}
    /\ IsFinite(out.ret.value)

(***************************************************************************)
(* SpecDefuzz: the defuzzification functions called on a membership        *)
(***************************************************************************)
Half == <<1, 2>>

MembershipCatalog ==
    {Constant(F(0)), Constant(F(1)), Linear(F(0), F(2)), Triangular(F(-2), F(0), F(2)),
     Inverted(Linear(F(0), F(2))),
     Max(<<Min(<<Constant(F(0)), Linear(F(0), F(2))>>)>>),
     Max(<<Min(<<Constant(Half), Linear(F(0), F(2))>>),
           Min(<<Constant(F(0)), Triangular(F(-2), F(0), F(2))>>)>>)}

UniverseBounds == {NegInf, F(-2), F(0), F(1), F(2), PosInf}

InitDefuzz ==
    /\ engine = NewEngine([kind |-> "Centroid", steps |-> Steps])
    /\ parser = NoParser
    /\ in \in [op : {"Defuzz"}, steps : 1..Steps, m : MembershipCatalog,
               min : UniverseBounds, max : UniverseBounds]
    /\ out = Idle

CentroidCall ==
    /\ in.op = "Defuzz"
    /\ out = Idle
    /\ out' = [op |-> "Centroid", value |-> Centroid(in.steps, in.m, in.min, in.max)]
    /\ UNCHANGED <<engine, in, parser>>

MeanOfMaximumCall ==
    /\ in.op = "Defuzz"
    /\ out = Idle
    /\ out' = [op |-> "MeanOfMaximum", value |-> MeanOfMaximum(in.steps, in.m, in.min, in.max)]
    /\ UNCHANGED <<engine, in, parser>>

NextDefuzz == CentroidCall \/ MeanOfMaximumCall

SpecDefuzz == InitDefuzz /\ [][NextDefuzz]_vars

\* the universe of the call is unbounded or degenerate
DegenerateUniverse == IsInf(in.min) \/ IsInf(in.max) \/ FGe(in.min, in.max)

\* the sum of the membership values Centroid samples is zero
SampledSumIsZero ==
    /\ ~DegenerateUniverse
    /\ LET step == MathMax(FDiv(F(1), F(in.steps)), FDiv(FSub(in.max, in.min), F(in.steps)))
       IN  FEq(CentroidLoop(in.m, in.min, in.max, step, F(0), F(0))[2], F(0))

\* C6 (as claimed): Centroid returns the midpoint (min + max) / 2 when the
\* sampled sum is zero and when the universe is unbounded or degenerate.
C6_CentroidMidpoint ==
    (out.op = "Centroid" /\ (SampledSumIsZero \/ DegenerateUniverse)) =>
        out.value = FDiv(FAdd(in.min, in.max), F(2))

\* what the code does: the midpoint for a zero sum, 0 for such a universe
C6_CentroidFallbacks ==
    out.op = "Centroid" =>
        /\ SampledSumIsZero => out.value = FDiv(FAdd(in.min, in.max), F(2))
        /\ DegenerateUniverse => out.value = F(0)

\* a degenerate universe whose midpoint is not 0
C6_Witness ==
    /\ out.op = "Centroid"
    /\ in.min = in.max
    /\ IsFinite(in.min)
    /\ in.min # F(0)

(***************************************************************************)
(* Parsing: ParseRulesAndVariables on texts of up to MaxStatements          *)
(* statements, one action per iteration of the loop of parse.              *)
(***************************************************************************)
MaxStatements == 2

WellFormedRule == <<"IF", "t", "IS", "cold", "THEN", "ac", "IS", "heating", ";">>

MissingThenRule == <<"IF", "t", "IS", "hot", "ac", "IS", "cooling", ";">>

MissingSemicolonRule == <<"IF", "t", "IS", "hot", "THEN", "ac", "IS", "cooling">>

MissingIfRule == <<"t", "IS", "cold", "THEN", "ac", "IS", "heating", ";">>

NotAndRule ==
    <<"if", "NOT", "t", "IS", "cold", "AND", "h", "IS", "high", "then", "ac", "IS", "off", ";">>

GroupRule ==
    <<"IF", "(", "t", "IS", "cold", "OR", "t", "IS", "hot", ")", "AND", "h", "IS", "high",
      "THEN", "ac", "IS", "off", ";">>

TemperatureDefinition ==
    <<"DEFINE", "t", "(", "TERM", "cold", "LINEAR", "(", "10", ",", "0", ")", ",",
      "TERM", "hot", "LINEAR", "(", "0", ",", "10", ")", ")", ";">>

InvalidNumberDefinition ==
    <<"DEFINE", "h", "(", "TERM", "high", "TRAPEZOID", "(", "0", ",", "1", ",", "2", ",",
      "x", ")", ")", ";">>

DuplicateTermDefinition ==
    <<"DEFINE", "ac", "(", "TERM", "off", "TRIANGULAR", "(", "-2", ",", "0", ",", "2", ")",
      ",", "TERM", "off", "LINEAR", "(", "1", ",", "1", ")", ")", ";">>

TruncatedDefinition == <<"DEFINE", "h", "(", "TERM", "high", "INVERTED", "(">>

StatementCatalog ==
    {WellFormedRule, MissingThenRule, MissingSemicolonRule, MissingIfRule, NotAndRule,
     GroupRule, TemperatureDefinition, InvalidNumberDefinition, DuplicateTermDefinition,
     TruncatedDefinition}

\* the texts: up to MaxStatements statements of the catalogue
Texts == SeqsUpTo(StatementCatalog, MaxStatements)

RECURSIVE Concat(_)
Concat(ss) == IF ss = <<>> THEN <<>> ELSE Head(ss) \o Concat(Tail(ss))

InitParse ==
    /\ engine = NewEngine([kind |-> "Centroid", steps |-> Steps])
    /\ in \in {[op |-> "ParseRulesAndVariables", statements |-> t] : t \in Texts}
    /\ parser = NewParser(Tokens(Concat(in.statements)), DefaultMemberships)
    /\ out = Idle

\* the outcome of the call once a panic left it
ParsePanicked == [op |-> "ParseRulesAndVariables", panicked |-> TRUE,
                  result |-> NilResult, err |-> NoErrors]

ParseDefinition ==
    /\ parser.pc = "loop"
    /\ parser.current < Len(parser.tokens)
    /\ TypeAt(parser.tokens, parser.current) = tokenDEFINE
    /\ parser' = parseDefinitionStep(parser)
    /\ out' = IF parser'.pc = "panic" THEN ParsePanicked ELSE out
    /\ UNCHANGED <<engine, in>>

ParseRule ==
    /\ parser.pc = "loop"
    /\ parser.current < Len(parser.tokens)
    /\ TypeAt(parser.tokens, parser.current) # tokenDEFINE
    /\ parser' = parseRuleStep(parser)
    /\ out' = IF parser'.pc = "panic" THEN ParsePanicked ELSE out
    /\ UNCHANGED <<engine, in>>

ParseReturn ==
    /\ parser.pc = "loop"
    /\ parser.current >= Len(parser.tokens)
    /\ parser' = [parser EXCEPT !.pc = "done"]
    /\ LET r == ParseRulesAndVariablesReturn(parseReturn(parser))
       IN  out' = [op |-> "ParseRulesAndVariables", panicked |-> FALSE,
                   result |-> r.result, err |-> r.err]
    /\ UNCHANGED <<engine, in>>

NextParse == ParseDefinition \/ ParseRule \/ ParseReturn

SpecParse == InitParse /\ [][NextParse]_vars

ParseReturned == out # Idle /\ out.op = "ParseRulesAndVariables" /\ ~out.panicked

\* the statement alone parses to one rule, without error, to its last token
IsWellFormed(statement) ==
    LET r == parseRule(Tokens(statement), 0)
    IN  Succeeded(r) /\ r.has /\ r.cur = Len(statement)

\* the statement is a rule whose premise is not followed by THEN
IsMissingThen(statement) ==
    LET r == parseRule(Tokens(statement), 0)
    IN  r.err.msg = "expected THEN after premise"

RuleOf(statement) == parseRule(Tokens(statement), 0).val

Statements == {in.statements[i] : i \in 1..Len(in.statements)}

\* the text is made of well-formed rules and rules missing THEN, with at
\* least one of each
MissingThenAmongWellFormed ==
    /\ \A s \in Statements : IsWellFormed(s) \/ IsMissingThen(s)
    /\ \E s \in Statements : IsWellFormed(s)
    /\ \E s \in Statements : IsMissingThen(s)

\* C3: when the text holds a rule missing THEN together with well-formed
\* rules, ParseRulesAndVariables reports a parse error and its result still
\* lists the well-formed rules.
C3_SalvagedRulesReturned ==
    (ParseReturned /\ MissingThenAmongWellFormed) =>
        /\ out.err # NoErrors
        /\ ~out.result.isNil
        /\ \A s \in Statements : IsWellFormed(s) =>
              \E i \in 1..Len(out.result.rules) : out.result.rules[i] = RuleOf(s)

\* what the code does on such a text: parse keeps the well-formed rules in
\* its rule list, and the call returns the error with a nil result
C3_SalvagedRulesDiscarded ==
    (ParseReturned /\ MissingThenAmongWellFormed) =>
        /\ out.err # NoErrors
        /\ out.result.isNil
        /\ \A s \in Statements : IsWellFormed(s) =>
              \E i \in 1..Len(parser.rules) : parser.rules[i] = RuleOf(s)

C3_Witness == ParseReturned /\ MissingThenAmongWellFormed

\* C26: while parsing any token sequence the parser reads tokens[i] only
\* for 0 <= i < len(tokens): no read is out of range, and a text truncated
\* right after  INVERTED (  inside a TERM ends with a parse error.
C26_TokenReadsInRange ==
    /\ parser.pc # "panic"
    /\ (/\ out # Idle
        /\ in.statements # <<>>
        /\ in.statements[Len(in.statements)] = TruncatedDefinition) =>
          (~out.panicked /\ out.err # NoErrors)

\* what the code does on a text that ends right after  INVERTED (  : the
\* inner membership function is read at index len(tokens) and the call
\* panics instead of returning an error
C26_TruncatedInvertedPanics ==
    (/\ in.statements # <<>>
     /\ in.statements[Len(in.statements)] = TruncatedDefinition
     /\ \A i \in 1..(Len(in.statements) - 1) : IsWellFormed(in.statements[i])
     /\ parser.pc # "loop") =>
        /\ parser.pc = "panic"
        /\ parser.current = Len(parser.tokens)
        /\ out.panicked

\* one iteration of the loop of parse
parseIteration(p) ==
    IF TypeAt(p.tokens, p.current) = tokenDEFINE THEN parseDefinitionStep(p)
    ELSE parseRuleStep(p)

\* the parser before each of the first n iterations of the loop of parse,
\* and after the last of them
RECURSIVE parseIterations(_, _)
parseIterations(p, n) ==
    IF p.pc # "loop" \/ p.current >= Len(p.tokens) \/ n = 0 THEN <<p>>
    ELSE <<p>> \o parseIterations(parseIteration(p), n - 1)

\* SpecParseLive: the same calls, with the iterations of each call laid out
\* when the call starts (the text fixes them) and taken one per step; no
\* more than len(tokens) + 1 iterations are laid out.
InitParseLive ==
    /\ engine = NewEngine([kind |-> "Centroid", steps |-> Steps])
    /\ \E t \in Texts :
          /\ parser = NewParser(Tokens(Concat(t)), DefaultMemberships)
          /\ in = [op |-> "ParseRulesAndVariables", statements |-> t,
                   steps |-> parseIterations(parser, Len(parser.tokens) + 1)]
    /\ out = Idle

ParseIterate ==
    /\ parser.pc = "loop"
    /\ parser.current < Len(parser.tokens)
    /\ \E k \in 1..(Len(in.steps) - 1) :
          /\ in.steps[k] = parser
          /\ parser' = in.steps[k + 1]
    /\ out' = IF parser'.pc = "panic" THEN ParsePanicked ELSE out
    /\ UNCHANGED <<engine, in>>

NextParseLive == ParseIterate \/ ParseReturn

\* the call runs on until it returns or panics: the code is sequential and
\* nothing but its own loop condition stops an iteration from being taken
SpecParseLive == InitParseLive /\ [][NextParseLive]_vars /\ WF_vars(NextParseLive)

\* the step is an iteration of the loop of parse
ParseIterated == parser.pc = "loop" /\ parser'.pc # "done" /\ parser' # parser

\* C27: the cursor of the parser never moves backwards, every iteration of
\* the loop of parse advances it by at least one token, and every call of
\* ParseRulesAndVariables comes to its end.
C27_ParserTerminates ==
    /\ [][parser'.current >= parser.current]_vars
    /\ [][ParseIterated => parser'.current > parser.current]_vars
    /\ <>(out # Idle)

\* a text of malformed statements only was parsed to its end: every
\* statement gave an error, no rule and no variable
C27_Witness ==
    /\ ParseReturned
    /\ Len(in.statements) > 1
    /\ \A s \in Statements : ~IsWellFormed(s)
    /\ Len(out.err) >= Len(in.statements)
    /\ parser.rules = <<>> /\ parser.variables = <<>>
    /\ parser.current = Len(parser.tokens)

\* the iteration of parse just taken recorded the error of a rule without
\* its trailing semicolon
RecordedMissingSemicolon ==
    /\ parser'.pc = "loop"
    /\ Len(parser'.errs) = Len(parser.errs) + 1
    /\ parser'.errs[Len(parser'.errs)].msg = "missing semicolon at end of rule"

\* where the semicolon was missed: the position of the recorded error
MissedAt == parser'.errs[Len(parser'.errs)].pos

\* C19 (as claimed): after recording the error of a rule whose trailing
\* semicolon is missing, the parser resumes at the first following IF or
\* DEFINE token (or just after the first following semicolon), and at the
\* DEFINE when a DEFINE statement follows the rule, so that this statement is
\* parsed as a variable definition.
C19_ResumesAtBoundary ==
    [][RecordedMissingSemicolon =>
          /\ parser'.current \in {SkipTo(parser.tokens, MissedAt, {tokenIF, tokenDEFINE}),
                                  SkipStatement(parser.tokens, MissedAt)}
          /\ TypeAt(parser.tokens, MissedAt) = tokenDEFINE => parser'.current = MissedAt]_vars

\* what the code does: it resumes at the first following IF, or at the end
\* of the tokens when no IF follows, whatever lies between
C19_ResumesAtNextIf ==
    [][RecordedMissingSemicolon =>
          parser'.current = SkipTo(parser.tokens, MissedAt, {tokenIF})]_vars

\* what the code does to a definition that follows a rule without its
\* semicolon: no variable comes of it
C19_DefinitionSwallowed ==
    (ParseReturned /\ in.statements = <<MissingSemicolonRule, TemperatureDefinition>>) =>
        parser.variables = <<>>

\* the errors parse records for the statement when it is the whole text
ErrorsAlone(statement) == parseLoop(NewParser(Tokens(statement), DefaultMemberships)).errs

\* the errors with their positions moved by offset tokens
Shifted(errs, offset) == [i \in 1..Len(errs) |-> [errs[i] EXCEPT !.pos = @ + offset]]

\* the errors of the statements from the i-th on, each at its place in the text
RECURSIVE ErrorsFrom(_, _, _)
ErrorsFrom(statements, i, offset) ==
    IF i > Len(statements) THEN <<>>
    ELSE Shifted(ErrorsAlone(statements[i]), offset)
         \o ErrorsFrom(statements, i + 1, offset + Len(statements[i]))

\* every statement of the text ends with its semicolon
StatementsClosed == \A i \in 1..Len(in.statements) : in.statements[i][Len(in.statements[i])] = ";"

ParameterWords == DOMAIN Numerals \cup {"x"}

LinearWords(w1, w2) == <<"LINEAR", "(", w1, ",", w2, ")">>

InitLinear ==
    /\ engine = NewEngine([kind |-> "Centroid", steps |-> Steps])
    /\ parser = NoParser
    /\ in \in {[op |-> "ParseLinear", x1 |-> w1, x2 |-> w2] : w1, w2 \in ParameterWords}
    /\ out = Idle

ParseLinearCall ==
    /\ in.op = "ParseLinear"
    /\ out = Idle
    /\ out' = [op |-> "ParseLinear",
               ret |-> parseMembershipFunction(Tokens(LinearWords(in.x1, in.x2)), 0,
                                               DefaultMemberships)]
    /\ UNCHANGED <<engine, in, parser>>

NextLinear == ParseLinearCall

SpecLinear == InitLinear /\ [][NextLinear]_vars

\* LINEAR ( x1 , x2 ) was parsed into a membership function
LinearParsed == out.op = "ParseLinear" /\ Succeeded(out.ret) /\ out.ret.has

\* C11: LINEAR(x1, x2) with x1 > x2 parses to Inverted(Linear(x2, x1)), which
\* is 0 at x1, 1 at x2, 1/2 at the midpoint and has the domain (x2, x1); with
\* x1 < x2 it parses to Linear(x1, x2), with x1 = x2 to the step at x1.
C11_LinearDirection ==
    LinearParsed =>
        LET x1 == Numerals[in.x1]
            x2 == Numerals[in.x2]
            m == out.ret.val
        IN  /\ out.ret.cur = 6
            /\ FGt(x1, x2) =>
                  /\ m = Inverted(Linear(x2, x1))
                  /\ Value(m, x1) = F(0)
                  /\ Value(m, x2) = F(1)
                  /\ Value(m, FDiv(FAdd(x1, x2), F(2))) = Half
                  /\ Domain(m) = <<x2, x1>>
            /\ FLt(x1, x2) =>
                  /\ m = Linear(x1, x2)
                  /\ Value(m, x1) = F(0)
                  /\ Value(m, x2) = F(1)
            /\ FEq(x1, x2) =>
                  /\ m = Step(x1)
                  /\ Value(m, FSub(x1, F(1))) = F(0)
                  /\ Value(m, x1) = F(1)

\* a descending LINEAR was parsed
C11_Witness ==
    LinearParsed /\ FGt(Numerals[in.x1], Numerals[in.x2]) /\ out.ret.val.k = "Inverted"

(***************************************************************************)
(* Premises: parseRule on  IF premise THEN ac IS off ;  for every premise  *)
(* of up to MaxOperands operands joined by AND and OR, any operand or      *)
(* sub-chain negated or parenthesised (groups are not nested in groups).   *)
(***************************************************************************)
MaxOperands == 3

OperandNames == <<"a", "b", "c", "d", "e">>

\* operand i of a premise
Operand(i) == <<OperandNames[i], "IS", "on">>

RECURSIVE Chains(_, _, _)
RECURSIVE Units(_, _, _)

\* the texts of one operand of a chain holding the n operands from first on
Units(first, n, grouped) ==
    (IF n = 1 THEN {Operand(first), <<"NOT">> \o Operand(first)} ELSE {})
    \cup (IF grouped THEN {}
          ELSE UNION {{<<"(">> \o c \o <<")">>, <<"NOT", "(">> \o c \o <<")">>} :
                       c \in Chains(first, n, TRUE)})

\* the texts of a chain holding the n operands from first on
Chains(first, n, grouped) ==
    Units(first, n, grouped)
    \cup UNION {{u \o <<op>> \o c : u \in Units(first, k, grouped),
                                    c \in Chains(first + k, n - k, grouped),
                                    op \in {"AND", "OR"}} : k \in 1..(n - 1)}

Premises == UNION {Chains(1, n, FALSE) : n \in 1..MaxOperands}

PremiseRule(premise) == <<"IF">> \o premise \o <<"THEN", "ac", "IS", "off", ";">>

InitPremise ==
    /\ engine = NewEngine([kind |-> "Centroid", steps |-> Steps])
    /\ parser = NoParser
    /\ in \in {[op |-> "parseRule", premise |-> p] : p \in Premises}
    /\ out = Idle

ParsePremiseCall ==
    /\ in.op = "parseRule"
    /\ out = Idle
    /\ out' = [op |-> "parseRule", ret |-> parseRule(Tokens(PremiseRule(in.premise)), 0)]
    /\ UNCHANGED <<engine, in, parser>>

NextPremise == ParsePremiseCall

SpecPremise == InitPremise /\ [][NextPremise]_vars

\* the rule of the premise was parsed
PremiseParsed == out.op = "parseRule" /\ Succeeded(out.ret) /\ out.ret.has

\* no And node of e has an And node as a child, no Or node an Or node
RECURSIVE IsFlat(_)
IsFlat(e) ==
    \A i \in 1..Len(e.exprs) :
        /\ e.k \in {"And", "Or"} => e.exprs[i].k # e.k
        /\ IsFlat(e.exprs[i])

\* the Is nodes of e from left to right
RECURSIVE IsNodes(_)
RECURSIVE IsNodesOf(_, _)
IsNodes(e) == IF e.k = "Is" THEN <<e>> ELSE IsNodesOf(e.exprs, 1)
IsNodesOf(exprs, i) ==
    IF i > Len(exprs) THEN <<>> ELSE IsNodes(exprs[i]) \o IsNodesOf(exprs, i + 1)

\* the number of operands of the premise text
OperandCount == Cardinality({i \in 1..Len(in.premise) : in.premise[i] = "IS"})

\* the words of the premise text other than operands and parentheses
Connectives ==
    {in.premise[i] : i \in 1..Len(in.premise)} \cap {"AND", "OR", "NOT"}

\* C12: in every premise the parser produces no And node has an And child
\* and no Or node an Or child; the operands keep their source order, and a
\* chain of ANDs only (of ORs only), whatever its parentheses, is one node
\* whose children are the operands in source order.
C12_ChainsAreFlat ==
    PremiseParsed =>
        LET e == out.ret.val.premise
            operands == [i \in 1..OperandCount |-> Is(OperandNames[i], "on")]
        IN  /\ IsFlat(e)
            /\ IsNodes(e) = operands
            /\ Connectives = {"AND"} => e = And(operands)
            /\ Connectives = {"OR"} => e = Or(operands)

\* a chain of three ANDs with a parenthesised sub-chain was parsed
C12_Witness ==
    /\ PremiseParsed
    /\ Connectives = {"AND"}
    /\ OperandCount = 3
    /\ "(" \in {in.premise[i] : i \in 1..Len(in.premise)}

(***************************************************************************)
(* Comments: removeComments on every text of up to MaxChars characters of  *)
(* Alphabet.                                                               *)
(***************************************************************************)
MaxChars == 4

Alphabet == {"a", " ", "/", "*", Newline}

InitComments ==
    /\ engine = NewEngine([kind |-> "Centroid", steps |-> Steps])
    /\ parser = NoParser
    /\ in \in {[op |-> "removeComments", input |-> t] : t \in SeqsUpTo(Alphabet, MaxChars)}
    /\ out = Idle

RemoveCommentsCall ==
    /\ in.op = "removeComments"
    /\ out = Idle
    /\ out' = [op |-> "removeComments", value |-> removeComments(in.input)]
    /\ UNCHANGED <<engine, in, parser>>

NextComments == RemoveCommentsCall

SpecComments == InitComments /\ [][NextComments]_vars

\* C13 (as claimed): the output of removeComments has the length of its
\* input, a newline exactly where the input has one, and at every other
\* place the character of the input or, for a comment character, a space.
C13_CommentsKeepLayout ==
    out.op = "removeComments" =>
        /\ Len(out.value) = Len(in.input)
        /\ \A i \in 1..Len(in.input) :
              /\ (in.input[i] = Newline) <=> (out.value[i] = Newline)
              /\ out.value[i] \in {in.input[i], " "}

\* what the code keeps: it never lengthens a text by more than the newline
\* it writes for a line comment that ends the text, and it keeps every line
\* break of the input
C13_LinesKept ==
    out.op = "removeComments" =>
        /\ Len(out.value) <= Len(in.input) + 1
        /\ Cardinality({i \in 1..Len(out.value) : out.value[i] = Newline})
              >= Cardinality({i \in 1..Len(in.input) : in.input[i] = Newline})

\* the premise text is NOT followed by a chain that does not open with "("
NegatedChain ==
    /\ Len(in.premise) > 4
    /\ in.premise[1] = "NOT"
    /\ in.premise[2] # "("

\* the premise parsed from the text NOT ( rest ) where the premise text is NOT rest
ParenthesisedNegation ==
    parseRule(Tokens(PremiseRule(<<"NOT", "(">> \o Tail(in.premise) \o <<")">>)), 0).val.premise

\* C22: NOT applies to the whole expression that follows it: the premise
\* NOT a IS on AND b IS on  is the tree Not(And(a IS on, b IS on)), the tree
\* of  NOT ( a IS on AND b IS on ), and so for every chain after a NOT.
C22_NotCoversExpression ==
    (PremiseParsed /\ NegatedChain) =>
        /\ out.ret.val.premise = ParenthesisedNegation
        /\ in.premise = <<"NOT">> \o Operand(1) \o <<"AND">> \o Operand(2)
              => out.ret.val.premise = Not(And(<<Is("a", "on"), Is("b", "on")>>))

\* what the parser builds: a NOT before an operand negates that operand
\* only, and the chain that follows is combined with the negated operand
C22_NotBindsOperand ==
    (PremiseParsed /\ NegatedChain) =>
        /\ out.ret.val.premise.k \in {"And", "Or"}
        /\ out.ret.val.premise.exprs[1] = Not(Is("a", "on"))
        /\ in.premise = <<"NOT">> \o Operand(1) \o <<"AND">> \o Operand(2)
              => out.ret.val.premise = And(<<Not(Is("a", "on")), Is("b", "on")>>)

\* the premise text is a chain of operands without NOT and parentheses
PlainChain == {in.premise[i] : i \in 1..Len(in.premise)} \cap {"NOT", "(", ")"} = {}

\* the node of  left op rest  where rest is the tree of all that follows
\* op: a node of the kind of op is extended, any other tree is an operand
RightNode(op, left, rest) ==
    IF op = "AND"
    THEN (IF rest.k = "And" THEN And(<<left>> \o rest.exprs) ELSE And(<<left, rest>>))
    ELSE (IF rest.k = "Or" THEN Or(<<left>> \o rest.exprs) ELSE Or(<<left, rest>>))

\* the tree of the chain from its operand i on, every connective taking
\* all that follows it as its right operand
RECURSIVE RightNested(_, _)
RightNested(words, i) ==
    LET operand == Is(words[4 * i - 3], words[4 * i - 1])
    IN  IF 4 * i - 1 = Len(words) THEN operand
        ELSE RightNode(words[4 * i], operand, RightNested(words, i + 1))

\* C29: AND and OR have no relative precedence and associate to the right:
\* a AND b OR c  parses to And(a, Or(b, c)) and  a OR b AND c  to
\* Or(a, And(b, c)); in every chain each connective takes the whole rest of
\* the chain as its right operand.
C29_RightAssociative ==
    (PremiseParsed /\ PlainChain) =>
        /\ out.ret.val.premise = RightNested(in.premise, 1)
        /\ in.premise = Operand(1) \o <<"AND">> \o Operand(2) \o <<"OR">> \o Operand(3)
              => out.ret.val.premise =
                    And(<<Is("a", "on"), Or(<<Is("b", "on"), Is("c", "on")>>)>>)
        /\ in.premise = Operand(1) \o <<"OR">> \o Operand(2) \o <<"AND">> \o Operand(3)
              => out.ret.val.premise =
                    Or(<<Is("a", "on"), And(<<Is("b", "on"), Is("c", "on")>>)>>)

\* a AND b OR c  was parsed
C29_Witness ==
    /\ PremiseParsed
    /\ in.premise = Operand(1) \o <<"AND">> \o Operand(2) \o <<"OR">> \o Operand(3)
    /\ out.ret.val.premise.k = "And"
    /\ out.ret.val.premise.exprs[2].k = "Or"

(***************************************************************************)
(* Invalid rules: ParseRules on every rule  IF premise THEN ac IS off ;    *)
(* of the premises of fewer than MaxOperands operands, whole or with one   *)
(* of its required words taken out.                                        *)
(***************************************************************************)
\* what the word at place i of a rule is for the rule, "" for a word the
\* rule can do without or whose lack the parser is not asked to report
RequiredAs(rule, i) ==
    IF rule[i] \in {"IF", "THEN", ";", ")"} THEN rule[i]
    ELSE IF i < Len(rule) /\ rule[i + 1] = "IS" THEN "variable"
    ELSE IF i > 1 /\ rule[i - 1] = "IS" THEN "term"
    ELSE ""

\* the rule without its word at place i
Without(rule, i) == SubSeq(rule, 1, i - 1) \o SubSeq(rule, i + 1, Len(rule))

ValidRules ==
    {PremiseRule(p) : p \in UNION {Chains(1, n, FALSE) : n \in 1..(MaxOperands - 1)}}

RuleTexts ==
    {[op |-> "ParseRules", lacks |-> "", words |-> r] : r \in ValidRules}
    \cup UNION {{[op |-> "ParseRules", lacks |-> RequiredAs(r, i), words |-> Without(r, i)] :
                    i \in {j \in 1..Len(r) : RequiredAs(r, j) # ""}} : r \in ValidRules}

InitRules ==
    /\ engine = NewEngine([kind |-> "Centroid", steps |-> Steps])
    /\ parser = NoParser
    /\ in \in RuleTexts
    /\ out = Idle

ParseRulesCall ==
    /\ in.op = "ParseRules"
    /\ out = Idle
    /\ out' = [op |-> "ParseRules", ret |-> ParseRules(in.words)]
    /\ UNCHANGED <<engine, in, parser>>

NextRules == ParseRulesCall

SpecRules == InitRules /\ [][NextRules]_vars

\* C14: ParseRules returns a non-nil error (and no rules) for every rule
\* text that lacks its leading IF, its THEN, its terminating semicolon, a
\* variable before IS, a term after IS or the closing parenthesis of a group.
C14_InvalidRuleRejected ==
    (out.op = "ParseRules" /\ in.lacks # "") =>
        /\ ~out.ret.panicked
        /\ out.ret.err # NoErrors
        /\ out.ret.isNil

\* a rule text without a closing parenthesis was rejected
C14_Witness ==
    out.op = "ParseRules" /\ in.lacks = ")" /\ out.ret.err # NoErrors

(***************************************************************************)
(* SpecSampling: one call of a defuzzification function, one action per    *)
(* iteration of its sampling loops.  out holds the locals of the call.     *)
(* Step counts are drawn from -Steps..Steps: Centroid(steps) and           *)
(* MeanOfMaximum(steps) take any int, and createHandler passes on whatever *)
(* strconv.ParseInt read from the query.                                   *)
(***************************************************************************)
StepCounts == (0 - Steps)..Steps

\* the memberships sampled: those of the catalogue that are no aggregate
SampledMemberships == {m \in MembershipCatalog : m.k \notin {"Min", "Max"}}

\* float64 addition leaves a sum unchanged once the addend is below half an
\* ulp of it, so a loop whose x moves away from max comes to a state that
\* every further iteration leaves as it is: x, num and den stay.  The model
\* puts that state Steps + 2 steps below min, where no loop with a positive
\* step comes.
Absorbed(x, step, min) == FLt(x, FSub(min, FMul(F(Steps + 2), MathAbs(step))))

Sampling(pc, x, step) ==
    [op |-> "Sample", pc |-> pc, x |-> x, step |-> step, num |-> F(0), den |-> F(0),
     best |-> F(0), acc |-> <<>>, value |-> F(0)]

Returned(value) == [Sampling("done", F(0), F(0)) EXCEPT !.value = value]

InitSampling ==
    /\ engine = NewEngine([kind |-> "Centroid", steps |-> Steps])
    /\ parser = NoParser
    /\ in \in [op : {"Sample"}, kind : {"Centroid", "MeanOfMaximum"}, steps : StepCounts,
               m : SampledMemberships, min : UniverseBounds, max : UniverseBounds]
    /\ out = Idle

\* the call up to its first loop: the guard and the step
DefuzzifyFuncCall ==
    /\ in.op = "Sample"
    /\ out = Idle
    /\ out' = IF IsInf(in.min) \/ IsInf(in.max) \/ FGe(in.min, in.max)
              THEN Returned(IF in.kind = "Centroid" THEN CentroidDegenerate(in.min, in.max)
                            ELSE MidPoint(in.min, in.max))
              ELSE IF in.kind = "Centroid"
              THEN Sampling("centroid", in.min,
                            MathMax(FDiv(F(1), F(in.steps)), FDiv(FSub(in.max, in.min), F(in.steps))))
              ELSE Sampling("max", in.min, FDiv(FSub(in.max, in.min), F(in.steps)))
    /\ UNCHANGED <<engine, in, parser>>

\* the condition of  for x := min; x <= max; x += step  in Centroid: into
\* the body, or past the loop to the return
CentroidTest ==
    /\ out.op = "Sample" /\ out.pc = "centroid"
    /\ out' = IF FLe(out.x, in.max) THEN [out EXCEPT !.pc = "centroidBody"]
              ELSE Returned(IF FEq(out.den, F(0)) THEN MidPoint(in.min, in.max)
                            ELSE FDiv(out.num, out.den))
    /\ UNCHANGED <<engine, in, parser>>

\* the body of the loop of Centroid and its x += step
CentroidBody ==
    /\ out.op = "Sample" /\ out.pc = "centroidBody"
    /\ \E y \in {Value(in.m, out.x)} : \E yx \in {FMul(y, out.x)} :
          out' = IF Absorbed(out.x, out.step, in.min) THEN [out EXCEPT !.pc = "centroid"]
                 ELSE [out EXCEPT !.pc = "centroid",
                                  !.num = FAdd(@, yx),
                                  !.den = FAdd(@, y),
                                  !.x = FAdd(@, out.step)]
    /\ UNCHANGED <<engine, in, parser>>

\* the condition of the first loop of MeanOfMaximum: into the body, or past
\* the loop, to the midpoint for a largest value of 0 and else to the second
\* loop, which starts at min
MaxTest ==
    /\ out.op = "Sample" /\ out.pc = "max"
    /\ out' = IF FLe(out.x, in.max) THEN [out EXCEPT !.pc = "maxBody"]
              ELSE IF FEq(out.best, F(0)) THEN Returned(MidPoint(in.min, in.max))
              ELSE [out EXCEPT !.pc = "maxValues", !.x = in.min]
    /\ UNCHANGED <<engine, in, parser>>

\* the body of the first loop of MeanOfMaximum and its x += step
MaxBody ==
    /\ out.op = "Sample" /\ out.pc = "maxBody"
    /\ \E y \in {Value(in.m, out.x)} :
          out' = IF Absorbed(out.x, out.step, in.min) THEN [out EXCEPT !.pc = "max"]
                 ELSE [out EXCEPT !.pc = "max",
                                  !.best = IF FGt(y, @) THEN y ELSE @,
                                  !.x = FAdd(@, out.step)]
    /\ UNCHANGED <<engine, in, parser>>

\* the condition of the second loop of MeanOfMaximum: into the body, or past
\* the loop to the return
MaxValuesTest ==
    /\ out.op = "Sample" /\ out.pc = "maxValues"
    /\ out' = IF FLe(out.x, in.max) THEN [out EXCEPT !.pc = "maxValuesBody"]
              ELSE Returned(IF Len(out.acc) = 0 THEN MidPoint(in.min, in.max)
                            ELSE FDiv(FSum(out.acc, 1), F(Len(out.acc))))
    /\ UNCHANGED <<engine, in, parser>>

\* the body of the second loop of MeanOfMaximum and its x += step
MaxValuesBody ==
    /\ out.op = "Sample" /\ out.pc = "maxValuesBody"
    /\ \E y \in {Value(in.m, out.x)} : \E d \in {FSub(y, out.best)} :
          out' = IF Absorbed(out.x, out.step, in.min) THEN [out EXCEPT !.pc = "maxValues"]
                 ELSE [out EXCEPT !.pc = "maxValues",
                                  !.acc = IF BelowEpsilon(MathAbs(d)) THEN Append(@, out.x) ELSE @,
                                  !.x = FAdd(@, out.step)]
    /\ UNCHANGED <<engine, in, parser>>

NextSampling ==
    \/ DefuzzifyFuncCall
    \/ CentroidTest
    \/ CentroidBody
    \/ MaxTest
    \/ MaxBody
    \/ MaxValuesTest
    \/ MaxValuesBody

\* a call that has started keeps running: nothing but the loop condition
\* stops the goroutine that executes it
SpecSampling == InitSampling /\ [][NextSampling]_vars /\ WF_vars(NextSampling)

DefuzzifyFuncReturned == out.op = "Sample" /\ out.pc = "done"

\* C15 (as claimed): every defuzzification call terminates, for every
\* integer step count Centroid and MeanOfMaximum accept, zero and negative
\* counts included.
C15_DefuzzificationTerminates == <>DefuzzifyFuncReturned

\* what the code does: a call with a step count of zero or more terminates
C15_TerminatesFromZeroUp == (in.steps >= 0) => <>DefuzzifyFuncReturned

\* what the code does: a loop that runs with a negative step count is never left
C15_NegativeCountNeverLeaves ==
    (out.op = "Sample" /\ out.pc = "done" /\ in.steps < 0) =>
        (IsInf(in.min) \/ IsInf(in.max) \/ FGe(in.min, in.max))

\* the value a call returns is the one the functions compute in one piece
C15_StepwiseAgrees ==
    (out.op = "Sample" /\ out.pc = "done" /\ in.steps > 0) =>
        out.value = CallDefuzzify([kind |-> in.kind, steps |-> in.steps], in.m, in.min, in.max)

(***************************************************************************)
(* SpecTriangular: Value(x) of the memberships Triangular(x1, x2, x3) with *)
(* x1 <= x2 <= x3, the triangles without a rising or a falling side        *)
(* included.                                                               *)
(***************************************************************************)
Points == {F(-2), F(-1), F(0), F(1), F(2)}

InitTriangular ==
    /\ engine = NewEngine([kind |-> "Centroid", steps |-> Steps])
    /\ parser = NoParser
    /\ in \in {t \in [op : {"Triangular"}, x1 : Points, x2 : Points, x3 : Points, x : Points] :
                  FLe(t.x1, t.x2) /\ FLe(t.x2, t.x3)}
    /\ out = Idle

TriangularValueCall ==
    /\ in.op = "Triangular"
    /\ out = Idle
    /\ out' = [op |-> "Value", v |-> Value(Triangular(in.x1, in.x2, in.x3), in.x)]
    /\ UNCHANGED <<engine, in, parser>>

NextTriangular == TriangularValueCall

SpecTriangular == InitTriangular /\ [][NextTriangular]_vars

\* C18 (as claimed): for x1 <= x2 <= x3, x1 = x2 and x2 = x3 included,
\* Value(x1) = 0, Value(x2) = 1, Value(x3) = 0 and Value(x) = 0 for every x
\* outside [x1, x3].
C18_TriangularAnchors ==
    out.op = "Value" =>
        /\ in.x = in.x1 => out.v = F(0)
        /\ in.x = in.x2 => out.v = F(1)
        /\ in.x = in.x3 => out.v = F(0)
        /\ (FLt(in.x, in.x1) \/ FGt(in.x, in.x3)) => out.v = F(0)

\* what the code does: the claimed values for x1 < x2 < x3 and outside
\* [x1, x3]; 1 at x1 = x2 < x3; NaN (0/0) at x2 = x3
C18_TriangularValues ==
    out.op = "Value" =>
        /\ (FLt(in.x1, in.x2) /\ FLt(in.x2, in.x3)) =>
              /\ in.x = in.x1 => out.v = F(0)
              /\ in.x = in.x2 => out.v = F(1)
              /\ in.x = in.x3 => out.v = F(0)
        /\ (FLt(in.x, in.x1) \/ FGt(in.x, in.x3)) => out.v = F(0)
        /\ (in.x = in.x2 /\ FLt(in.x2, in.x3)) => out.v = F(1)
        /\ (in.x = in.x2 /\ in.x2 = in.x3) => IsNaN(out.v)

(***************************************************************************)
(* SpecSequence: a sequence of Infer calls on one configured Engine that   *)
(* is not reconfigured.  in is the caller's note of the first call: its    *)
(* input values, what it returned, and whether another call has followed.  *)
(***************************************************************************)
EngineCatalog ==
    {SetRules(SetVariables(NewEngine([kind |-> "Centroid", steps |-> Steps]), vs), rs) :
        vs \in {<<Temperature, Humidity, AcMode>>, <<Temperature2, Humidity, AcMode, Fan>>,
                <<Temperature, Temperature2, AcMode>>},
        rs \in RuleLists}

InitSequence ==
    /\ engine \in EngineCatalog
    /\ parser = NoParser
    /\ in = Idle
    /\ out = Idle

InferNext ==
    \E values \in ValueMaps :
        /\ out' = [op |-> "Infer", values |-> values, ret |-> Infer(engine, values)]
        /\ engine' = InferReceiver(engine, values)
        /\ in' = IF in = Idle
                 THEN [op |-> "Infer", values |-> values, ret |-> out'.ret, again |-> FALSE]
                 ELSE [in EXCEPT !.again = TRUE]
        /\ UNCHANGED parser

NextSequence == InferNext

SpecSequence == InitSequence /\ [][NextSequence]_vars

Goroutines == {1, 2}

ConcurrentValues == {v \in ValueMaps : DOMAIN v \in {{}, {"t", "h"}}}

NotReturned == [results |-> EmptyMap, isNil |-> TRUE, err |-> NoError, panic |-> NoError]

InitConcurrent ==
    /\ engine \in EngineCatalog
    /\ parser = NoParser
    /\ in \in [Goroutines -> ConcurrentValues]
    /\ out = [g \in Goroutines |->
                [pc |-> "call", ctx |-> NewContext(<<>>, EmptyMap), i |-> 1, ret |-> NotReturned]]

\* mutant: the calls accumulate into one Context, that of the first call
FirstCallContext(calls, g) == calls[1].ctx

\* the Context call g reads and accumulates into: ctx is a local of Infer,
\* set from the NewContext of that call
CallContext(calls, g) == calls[g].ctx

\* ctx := NewContext(e.variables, values), which may panic
InferEnter ==
    \E g \in Goroutines :
        /\ out[g].pc = "call"
        /\ out' = [out EXCEPT ![g] =
                     IF NewContext(engine.variables, in[g]).panic # NoError
                     THEN [@ EXCEPT !.pc = "done",
                                    !.ret = [NotReturned EXCEPT !.panic =
                                                NewContext(engine.variables, in[g]).panic]]
                     ELSE [@ EXCEPT !.pc = "loop", !.ctx = NewContext(engine.variables, in[g])]]
        /\ UNCHANGED <<engine, in, parser>>

\* call g after InferRule gave s for its rule: the return of the error, or
\* the next rule with the Context s left
AfterRule(call, s) ==
    IF s.err # NoError THEN [call EXCEPT !.pc = "done", !.ret = InferFail(s.ctx, s.err)]
    ELSE [call EXCEPT !.ctx = s.ctx, !.i = @ + 1]

\* one iteration of  for _, r := range e.rules
InferIterate ==
    \E g \in Goroutines :
        /\ out[g].pc = "loop"
        /\ out[g].i <= Len(engine.rules)
        /\ out' = [out EXCEPT ![g] =
                     AfterRule(@, InferRule(CallContext(out, g), engine.rules[out[g].i]))]
        /\ UNCHANGED <<engine, in, parser>>

\* return ctx.Results(), nil
InferReturn ==
    \E g \in Goroutines :
        /\ out[g].pc = "loop"
        /\ out[g].i > Len(engine.rules)
        /\ out' = [out EXCEPT ![g] =
                     [@ EXCEPT !.pc = "done",
                               !.ret = [results |-> CallContext(out, g).results, isNil |-> FALSE,
                                        err |-> NoError, panic |-> NoError]]]
        /\ UNCHANGED <<engine, in, parser>>

NextConcurrent == InferEnter \/ InferIterate \/ InferReturn

SpecConcurrent == InitConcurrent /\ [][NextConcurrent]_vars

\* C17: under every interleaving of concurrent Infer calls on one Engine,
\* each call returns what it returns when run alone on that Engine with its
\* input values: the calls share nothing they change.
C17_ConcurrentInferAlone ==
    \A g \in Goroutines : out[g].pc = "done" => out[g].ret = Infer(engine, in[g])

\* both calls returned different non-empty Results
C17_Witness ==
    /\ \A g \in Goroutines :
          out[g].pc = "done" /\ out[g].ret.err = NoError /\ out[g].ret.results # EmptyMap
    /\ out[1].ret # out[2].ret

(***************************************************************************)
(* SpecOrder: Infer over rule lists in which several steps can fail        *)
(***************************************************************************)
\* rules that fail at the conclusion's variable, at its term, or at the premise
OrderRules ==
    {NewRule(Is("t", "cold"), "ac", "heating"),
     NewRule(Is("h", "high"), "zz", "on"),
     NewRule(Is("h", "high"), "fan", "off"),
     NewRule(Is("q", "x"), "ac", "off"),
     NewRule(Is("t", "warm"), "ac", "cooling")}

OrderEngines ==
    {SetRules(SetVariables(NewEngine([kind |-> "Centroid", steps |-> Steps]), vs), rs) :
        vs \in {<<Temperature, Humidity, AcMode, Fan>>, <<Temperature, AcMode>>},
        rs \in SeqsUpTo(OrderRules, MaxRules)}

InitOrder ==
    /\ engine \in OrderEngines
    /\ parser = NoParser
    /\ in = Idle
    /\ out = Idle

InferOrdered ==
    \E values \in ValueMaps :
        /\ out' = [op |-> "Infer", values |-> values, ret |-> Infer(engine, values)]
        /\ engine' = InferReceiver(engine, values)
        /\ UNCHANGED <<in, parser>>

NextOrder == InferOrdered

SpecOrder == InitOrder /\ [][NextOrder]_vars

\* the error of the first step of rule r that fails when the steps are taken
\* in the order conclusion variable, conclusion term, premise
FirstStepError(e, values, r) ==
    LET ctx == NewContext(e.variables, values)
        names == {e.variables[i].name : i \in 1..Len(e.variables)}
    IN  IF r.conclusion.variable \notin names THEN ErrUndefinedVariable
        ELSE IF r.conclusion.term \notin DOMAIN ctx.variables[r.conclusion.variable].terms
             THEN ErrUndefinedTerm
             ELSE ExprValue(r.premise, ctx).err

\* the rules of e of which a step fails on these values
FailingRules(e, values) ==
    {i \in 1..Len(e.rules) : FirstStepError(e, values, e.rules[i]) # NoError}

FirstFailingRule(e, values) ==
    CHOOSE i \in FailingRules(e, values) : \A j \in FailingRules(e, values) : i <= j

\* C21: Infer takes the rules in declaration order and, in each rule,
\* resolves the conclusion's variable, then its term, then evaluates the
\* premise; the error it returns is the one of the first failing step of the
\* first failing rule, and it returns no error when no step of any rule fails.
C21_FirstFailingStep ==
    out # Idle =>
        IF FailingRules(engine, out.values) = {}
        THEN out.ret.err = NoError /\ ~out.ret.isNil
        ELSE /\ out.ret.isNil
             /\ out.ret.err =
                    FirstStepError(engine, out.values,
                                   engine.rules[FirstFailingRule(engine, out.values)])

\* a first failing rule whose conclusion variable is undefined and whose
\* premise fails with another error: the undefined variable is reported
C21_Witness ==
    /\ out # Idle
    /\ FailingRules(engine, out.values) # {}
    /\ LET r == engine.rules[FirstFailingRule(engine, out.values)]
           ctx == NewContext(engine.variables, out.values)
       IN  /\ ContextVariable(ctx, r.conclusion.variable).err = ErrUndefinedVariable
           /\ ExprValue(r.premise, ctx).err = ErrValueNotFound
    /\ FirstFailingRule(engine, out.values) = 2
    /\ out.ret.err = ErrUndefinedVariable

(***************************************************************************)
(* SpecRace: one goroutine calls Infer while another calls Variables and   *)
(* Rules on the same Engine, without synchronisation.  The two reads of    *)
(* Infer (e.variables, then e.rules) and the stores of the setters are     *)
(* separate steps.  A slice is stored word by word: a read of a field      *)
(* while its store is in flight is a data race and yields the old list,    *)
(* the new one, the array of one with the length of the other, or a fault  *)
(* when that length exceeds the array.                                     *)
(***************************************************************************)
MaxStores == 2

ErrFault == "invalid memory address"

RaceVariableLists == {<<Temperature, Humidity, AcMode>>, <<Temperature2, Humidity, AcMode, Fan>>, <<>>}

RaceRuleLists ==
    SeqsUpTo({NewRule(Is("t", "cold"), "ac", "heating"), NewRule(Is("t", "warm"), "ac", "off")}, 2)

RaceValues == {[n \in {"t", "h"} |-> F(1)], [n \in {"t"} |-> F(0)]}

Installed(e) == [variables |-> e.variables, rules |-> e.rules]

\* a read that sees the array of one list and the length n of the other
Mixed(list, n) ==
    IF n <= Len(list) THEN [list |-> SubSeq(list, 1, n), fault |-> FALSE]
    ELSE [list |-> <<>>, fault |-> TRUE]

\* the outcomes of reading a slice field while new is being stored over old
TornReads(old, new) ==
    {[list |-> old, fault |-> FALSE], [list |-> new, fault |-> FALSE],
     Mixed(new, Len(old)), Mixed(old, Len(new))}

\* the store of the field is in flight
Storing(field) == in.pc = "store" /\ in.field = field

\* the outcomes of reading e.variables or e.rules now
FieldRead(field) ==
    IF Storing(field) THEN TornReads(engine[field], in.value)
    ELSE {[list |-> engine[field], fault |-> FALSE]}

Faulted == [results |-> EmptyMap, isNil |-> TRUE, err |-> NoError, panic |-> ErrFault]

InitRace ==
    /\ engine = SetRules(SetVariables(NewEngine([kind |-> "Centroid", steps |-> Steps]),
                                      <<Temperature, Humidity, AcMode>>),
                         <<NewRule(Is("t", "cold"), "ac", "heating")>>)
    /\ parser = NoParser
    /\ in = [pc |-> "idle", hist |-> <<Installed(engine)>>]
    /\ out = [pc |-> "idle"]

\* Engine.Variables(variables...): the store begins
RaceVariables ==
    /\ in.pc = "idle"
    /\ Len(in.hist) <= MaxStores
    /\ \E vs \in RaceVariableLists :
          in' = [pc |-> "store", field |-> "variables", value |-> vs, hist |-> in.hist]
    /\ UNCHANGED <<engine, out, parser>>

\* Engine.Rules(rules...): the store begins
RaceRules ==
    /\ in.pc = "idle"
    /\ Len(in.hist) <= MaxStores
    /\ \E rs \in RaceRuleLists :
          in' = [pc |-> "store", field |-> "rules", value |-> rs, hist |-> in.hist]
    /\ UNCHANGED <<engine, out, parser>>

\* the store of the setter is complete and the setter returns
RaceStored ==
    /\ in.pc = "store"
    /\ engine' = IF in.field = "variables" THEN SetVariables(engine, in.value)
                 ELSE SetRules(engine, in.value)
    /\ in' = [pc |-> "idle", hist |-> Append(in.hist, Installed(engine'))]
    /\ UNCHANGED <<out, parser>>

\* Infer is entered: e.variables is read and NewContext builds the context
RaceInferEnter ==
    /\ out.pc = "idle"
    /\ \E values \in RaceValues, v \in FieldRead("variables") :
          LET call == [values |-> values, variables |-> v.list, rules |-> <<>>,
                       entry |-> engine.rules, seenV |-> Len(in.hist), seenR |-> Len(in.hist),
                       clean |-> ~Storing("variables"), looped |-> FALSE]
              ctx == NewContext(v.list, values)
          IN  out' = IF v.fault THEN call @@ [pc |-> "done", ret |-> Faulted]
                     ELSE IF ctx.panic # NoError
                     THEN call @@ [pc |-> "done",
                                   ret |-> [results |-> EmptyMap, isNil |-> TRUE,
                                            err |-> NoError, panic |-> ctx.panic]]
                     ELSE call @@ [pc |-> "loop", ret |-> Faulted]
    /\ UNCHANGED <<engine, in, parser>>

\* the loop of Infer: e.rules is read, the rules are applied, Infer returns
RaceInferLoop ==
    /\ out.pc = "loop"
    /\ \E r \in FieldRead("rules") :
          LET rules == InferRulesRead(out.entry, r.list)
          IN  out' = [out EXCEPT !.pc = "done",
                                 !.rules = rules,
                                 !.seenR = Len(in.hist),
                                 !.clean = @ /\ ~Storing("rules"),
                                 !.looped = TRUE,
                                 !.ret = IF r.fault THEN Faulted
                                         ELSE InferLoop(NewContext(out.variables, out.values),
                                                        rules, 1)]
    /\ UNCHANGED <<engine, in, parser>>

NextRace == RaceVariables \/ RaceRules \/ RaceStored \/ RaceInferEnter \/ RaceInferLoop

SpecRace == InitRace /\ [][NextRace]_vars

\* the Infer call has returned and neither of its reads raced with a store
RaceFreeReturn == out.pc = "done" /\ out.clean

\* the pairs of lists the engine has held
InstalledPairs == {in.hist[k] : k \in 1..Len(in.hist)}

\* C23: Infer reads the variable list once, when it is entered, and the rule
\* list afterwards, when its loop starts: each read yields the list the
\* engine holds at that moment, setters that complete in between are seen by
\* the second read only, and the call returns what Infer returns on an
\* engine holding the two lists read -- a pair the engine need not ever have
\* held (C23_Witness), which makes the setters unsafe during an Infer.
C23_InferReadsTwice ==
    RaceFreeReturn =>
        /\ out.seenV <= out.seenR
        /\ out.variables = in.hist[out.seenV].variables
        /\ out.looped => out.rules = in.hist[out.seenR].rules
        /\ out.ret = Infer([engine EXCEPT !.variables = out.variables, !.rules = out.rules],
                           out.values)

\* an Infer call, none of whose reads raced, has applied a rule list to a
\* variable list that the engine never held together, and returned results
C23_Witness ==
    /\ RaceFreeReturn
    /\ out.looped
    /\ [variables |-> out.variables, rules |-> out.rules] \notin InstalledPairs
    /\ out.ret.err = NoError
    /\ DOMAIN out.ret.results # {}

\* a racing read of the rule list made the call fault
C23_TornRead == out.pc = "done" /\ ~out.clean /\ out.ret.panic = ErrFault

(***************************************************************************)
(* SpecOptions: successive ParseRulesAndVariables calls with option lists; *)
(* parser holds the package-level variable DefaultMemberships, the map     *)
(* that NewOptions puts in every Options.                                  *)
(***************************************************************************)
MaxOptions == 2

\* WithMembershipParser(funcType, parser)
WithMembershipParser(funcType, membershipParser) ==
    [fn |-> "WithMembershipParser", funcType |-> funcType, parser |-> membershipParser,
     parsers |-> EmptyMap]

\* WithMembershipParsers(parsers)
WithMembershipParsers(parsers) ==
    [fn |-> "WithMembershipParsers", funcType |-> "", parser |-> "", parsers |-> parsers]

\* fn(opts): opts.Memberships is the package's map while shared holds, else
\* the map own; defaults is the package's map
ApplyOption(o, fn) ==
    IF fn.fn = "WithMembershipParsers"
    THEN [o EXCEPT !.shared = FALSE, !.own = fn.parsers]
    ELSE IF o.shared
    THEN [o EXCEPT !.defaults = Put(@, fn.funcType, fn.parser)]
    ELSE [o EXCEPT !.own = Put(@, fn.funcType, fn.parser)]

RECURSIVE ApplyOptions(_, _, _)
ApplyOptions(o, funcs, i) ==
    IF i > Len(funcs) THEN o ELSE ApplyOptions(ApplyOption(o, funcs[i]), funcs, i + 1)

\* NewOptions(funcs...): the Memberships of the Options and the package's
\* map after the option functions have run
NewOptions(defaults, funcs) ==
    LET o == ApplyOptions([shared |-> TRUE, own |-> EmptyMap, defaults |-> defaults], funcs, 1)
    IN  [Memberships |-> IF o.shared THEN o.defaults ELSE o.own, defaults |-> o.defaults]

\* ParseRulesAndVariables once the options are built
ParseRulesAndVariables(words, memberships) ==
    LET p == parseLoop(NewParser(Tokens(words), memberships))
    IN  IF p.pc = "panic" THEN [panicked |-> TRUE, result |-> NilResult, err |-> NoErrors]
        ELSE [panicked |-> FALSE] @@ ParseRulesAndVariablesReturn(parseReturn(p))

OptionTexts ==
    {<<"DEFINE", "h", "(", "TERM", "high", "LINEAR", "(", "0", ",", "2", ")", ")", ";">>,
     <<"DEFINE", "h", "(", "TERM", "high", "TRIANGULAR", "(", "0", ",", "1", ",", "2", ")", ")",
       ";">>}

OptionFuncs ==
    {WithMembershipParser(t, n) : t \in {tokenLINEAR, tokenTRIANGULAR},
                                  n \in {"ParseLinear", "ParseTriangular"}}
    \cup {WithMembershipParsers([t \in {tokenLINEAR} |-> "ParseLinear"])}

InitOptions ==
    /\ engine = NewEngine([kind |-> "Centroid", steps |-> Steps])
    /\ parser = [pc |-> "none", DefaultMemberships |-> DefaultMemberships]
    /\ in = Idle
    /\ out = Idle

ParseWithOptions ==
    \E words \in OptionTexts, funcs \in SeqsUpTo(OptionFuncs, MaxOptions) :
        LET opts == NewOptions(parser.DefaultMemberships, funcs)
        IN  /\ out' = [op |-> "ParseRulesAndVariables", words |-> words, funcs |-> funcs,
                       memberships |-> opts.Memberships,
                       ret |-> ParseRulesAndVariables(words, opts.Memberships)]
            /\ parser' = [parser EXCEPT !.DefaultMemberships = opts.defaults]
            /\ UNCHANGED <<engine, in>>

NextOptions == ParseWithOptions

SpecOptions == InitOptions /\ [][NextOptions]_vars

\* the call was made without options
WithoutOptions == out # Idle /\ out.funcs = <<>>

\* C28: an option passed to one ParseRulesAndVariables call affects that
\* call only: a call made without options parses with the default table of
\* membership parsers, whatever options the calls before it were given.
C28_OptionsAffectOneCall ==
    WithoutOptions =>
        /\ out.memberships = DefaultMemberships
        /\ out.ret = ParseRulesAndVariables(out.words, DefaultMemberships)

\* what the code does: a call made without options parses with the
\* package's map as the calls before it have left it, and a call given one
\* WithMembershipParser writes its parser into that map
C28_OptionsWriteDefaults ==
    /\ WithoutOptions => out.memberships = parser.DefaultMemberships
    /\ [][\A funcs \in {out'.funcs} :
            (Len(funcs) = 1 /\ funcs[1].fn = "WithMembershipParser") =>
                parser'.DefaultMemberships[funcs[1].funcType] = funcs[1].parser]_vars

(***************************************************************************)
(* SpecVariable: NewVariable on up to MaxTerms terms whose memberships     *)
(* take their parameters in any order                                      *)
(***************************************************************************)
MaxTerms == 2

Params == {F(0), F(1), F(2)}

TermMemberships ==
    {Linear(x1, x2) : x1 \in Params, x2 \in Params}
    \cup {Triangular(x1, F(1), x3) : x1 \in Params, x3 \in Params}

TermNames == <<"low", "high", "mid">>

\* the lists of up to n terms
TermLists(n) ==
    UNION {{[i \in 1..k |-> NewTerm(TermNames[i], ms[i])] : ms \in [1..k -> TermMemberships]} :
              k \in 1..n}

InitVariable ==
    /\ engine = NewEngine([kind |-> "Centroid", steps |-> Steps])
    /\ parser = NoParser
    /\ in \in {[op |-> "NewVariable", terms |-> ts] : ts \in TermLists(MaxTerms)}
    /\ out = Idle

NewVariableCall ==
    /\ out = Idle
    /\ out' = [op |-> "NewVariable", ret |-> NewVariable("v", in.terms)]
    /\ UNCHANGED <<engine, in, parser>>

NextVariable == NewVariableCall

SpecVariable == InitVariable /\ [][NextVariable]_vars

VariableBuilt == out # Idle /\ out.ret.panic = NoError

\* C30: for every Variable built by NewVariable from at least one term,
\* UniverseMin() <= UniverseMax(), whatever the order of the parameters of
\* the terms' membership functions.
C30_UniverseOrdered ==
    (VariableBuilt /\ Len(in.terms) > 0) =>
        FLe(out.ret.universeMin, out.ret.universeMax)

\* the parameters of the membership are in ascending order
Ascending(m) == \A i \in 1..(Len(m.p) - 1) : FLe(m.p[i], m.p[i + 1])

\* what the code does: the universe is the least first parameter and the
\* greatest last parameter, and it is ordered when every membership takes
\* its parameters in ascending order
C30_UniverseOfFirstAndLast ==
    (VariableBuilt /\ Len(in.terms) > 0) =>
        LET ms == [i \in 1..Len(in.terms) |-> in.terms[i].membership]
        IN  /\ IsMinOf(out.ret.universeMin, {ms[i].p[1] : i \in 1..Len(ms)})
            /\ IsMaxOf(out.ret.universeMax, {ms[i].p[Len(ms[i].p)] : i \in 1..Len(ms)})
            /\ (\A i \in 1..Len(ms) : Ascending(ms[i])) =>
                  FLe(out.ret.universeMin, out.ret.universeMax)

====
